---- MODULE Spec2Model ----
(***************************************************************************)
(* A model of the retrieval-augmented-generation core of the admissions    *)
(* chatbot: AdmissionsChatbotWorkflow (workflows/chatbot_workflow.py),     *)
(* HybridSearch (services/search.py), Reranker (services/reranker.py) and  *)
(* AnswerGenerator (services/answer_generator.py).                         *)
(*                                                                         *)
(* Text is a sequence of string tokens: a token is one character (" " is   *)
(* the whitespace character) or one fixed chunk of text.  The empty string *)
(* is <<>>.  An exception is identified by its description, a string; the  *)
(* Python value None of an Optional[str] is the string None below.  An     *)
(* Optional[int] argument is a natural number with 0 for None: the code    *)
(* only ever tests such an argument for truth (`top_n or ...`,             *)
(* `if top_n`), which treats 0 and None alike.                             *)
(***************************************************************************)
EXTENDS Integers, Sequences, FiniteSets, TLC

(***************************************************************************)
(* Bounds of the model.                                                    *)
(***************************************************************************)
\* longest query text, in characters
MaxQueryLen == 1
\* number of documents of the index
NumDocs == 3
\* relevance scores of the rerank model range over 0..MaxScore
MaxScore == 1
\* longest conversation history handed to a run, in messages
MaxHistory == 1
\* longest candidate list handed directly to AnswerGenerator.generate_answer
MaxContexts == 2
\* longest text the generation service returns, in characters
MaxContentLen == 1
\* the generation call takes 0..MaxElapsed ticks of the clock
MaxElapsed == 1
\* longest candidate pool handed directly to Reranker.rerank
MaxPool == 6
\* longest conversation history handed directly to the answer generator
MaxMessages == 11
\* the turns of a conversation stored before the requests of the model
MaxStoredTurns == 4
\* most client objects the client factories construct
MaxClients == 3

(***************************************************************************)
(* Program constants (defaults of app/config.py) and fixed texts.          *)
(***************************************************************************)
RERANKER_TOP_K == 20
RERANKER_TOP_N == 5
RETRIEVAL_TOP_K == 5
ANSWER_MAX_CONTEXT_DOCS == 5
MAX_CONVERSATION_HISTORY == 5
\* format_output keeps the top 3 sources
MAX_SOURCES == 3

None == "None"

SYSTEM_PROMPT == <<"SYSTEM_PROMPT">>
\* AnswerGenerator._fallback_answer, no candidates
NO_INFO_ANSWER == <<"Xin loi, toi khong tim thay thong tin lien quan den cau hoi cua ban trong co so du lieu.">>
\* AnswerGenerator._fallback_answer, top candidate has no answer field
CANNOT_ANSWER == <<"Xin loi, toi khong the tao cau tra loi cho cau hoi nay.">>
SOURCE_PREFIX == "\n\nNguon: "
SOURCE_SEP == " - "
\* AdmissionsChatbotWorkflow.generate_answer, except branch
GENERATION_ERROR_ANSWER == <<"Xin loi, toi gap loi khi tao cau tra loi. Vui long thu lai.">>
\* AdmissionsChatbotWorkflow.handle_no_context: the example-categories text
NO_CONTEXT_ANSWER == <<"Xin loi, toi khong tim thay thong tin lien quan ... Toi co the giup ban voi cac cau hoi ve: ...">>
\* AdmissionsChatbotWorkflow.run, except branch
WORKFLOW_ERROR_ANSWER == <<"Xin loi, he thong gap loi. Vui long thu lai sau.">>

(***************************************************************************)
(* Helpers.                                                                *)
(***************************************************************************)
Min(a, b) == IF a <= b THEN a ELSE b

\* seq[:n] for n >= 0
Take(seq, n) == SubSeq(seq, 1, Min(n, Len(seq)))

\* dict.update: the keys of q override those of p
Merge(p, q) == [k \in DOMAIN p \cup DOMAIN q |-> IF k \in DOMAIN q THEN q[k] ELSE p[k]]

\* sequences over S of length at most n
SeqsUpTo(S, n) == UNION {[1..k -> S] : k \in 0..n}

RECURSIVE LStrip(_)
LStrip(s) == IF s # <<>> /\ Head(s) = " " THEN LStrip(Tail(s)) ELSE s

RECURSIVE RStrip(_)
RStrip(s) == IF s # <<>> /\ s[Len(s)] = " " THEN RStrip(SubSeq(s, 1, Len(s) - 1)) ELSE s

\* str.strip()
Strip(s) == RStrip(LStrip(s))

\* truth value of a Python str
Truthy(s) == s # <<>>

(***************************************************************************)
(* Outcomes of a call: a value returned or an exception raised.            *)
(***************************************************************************)
Return(v, calls) == [raised |-> FALSE, exc |-> None, value |-> v, calls |-> calls]
Raise(e, calls) == [raised |-> TRUE, exc |-> e, value |-> <<>>, calls |-> calls]

\* the external services and how many times each was called
Services == {"encoder", "index", "reranker", "generation",
             "log_request", "log_response", "log_error"}
NoCalls == [s \in Services |-> 0]
Called(S) == [s \in Services |-> IF s \in S THEN 1 ELSE 0]
AddCalls(c, d) == [s \in Services |-> c[s] + d[s]]

(***************************************************************************)
(* The search index (external): NumDocs documents.  Which answer and       *)
(* provenance fields a document carries depends on its id, so that the     *)
(* index holds documents with both answers, one of them or none, with both *)
(* provenance fields, one of them or none, and with a regulation text      *)
(* (context) or without.  A field the index does not hold reads as the     *)
(* empty text, as doc.get(field, '') does.                                 *)
(***************************************************************************)
DocIds == 1..NumDocs
Scores == 0..MaxScore

Field(name, id, present) == IF present THEN <<name \o ToString(id)>> ELSE <<>>

IndexSource(id) ==
    [question           |-> <<"question" \o ToString(id)>>,
     context            |-> Field("context", id, id % 3 # 0),
     article            |-> Field("article", id, id % 4 \in {0, 1}),
     document           |-> Field("document", id, id % 4 \in {1, 3}),
     extractive_answer  |-> Field("extractive", id, id % 4 \in {1, 2}),
     abstractive_answer |-> Field("abstractive", id, id % 2 = 1)]

\* the index scores document 1 highest; hits come in descending score
IndexScore(id) == NumDocs + 1 - id

\* es_client.search: the matching documents in descending score, at most size
IndexSearch(matched, size) ==
    Take(SelectSeq([i \in 1..NumDocs |-> i], LAMBDA i : i \in matched), size)

\* what the encoder, the index and the relevance model do during one search
SearchEnvs ==
    {e \in [encoder_ok : BOOLEAN, index_ok : BOOLEAN, matched : SUBSET DocIds,
            rerank_ok : BOOLEAN, score : [DocIds -> Scores]] :
        /\ (~e.encoder_ok) => e.index_ok
        /\ (~(e.encoder_ok /\ e.index_ok)) => (e.matched = {} /\ e.rerank_ok)
        /\ (~e.rerank_ok \/ e.matched = {}) => (\A i \in DocIds : e.score[i] = 0)
        /\ \A i \in DocIds \ e.matched : e.score[i] = 0}

(***************************************************************************)
(* Reranker (services/reranker.py)                                         *)
(***************************************************************************)
\* Reranker.__init__
Reranker_init(cfg) == [enabled |-> cfg.RERANKER_ENABLED]

\* an insertion that puts d before the documents of equal score
RECURSIVE InsertDesc_before_equal(_, _)
InsertDesc_before_equal(s, d) ==
    IF s = <<>> THEN <<d>>
    ELSE IF Head(s).reranker_score > d.reranker_score
         THEN <<Head(s)>> \o InsertDesc_before_equal(Tail(s), d)
         ELSE <<d>> \o s

\* insert d after every document whose score is at least d's
RECURSIVE InsertDesc(_, _)
InsertDesc(s, d) ==
    IF s = <<>> THEN <<d>>
    ELSE IF Head(s).reranker_score >= d.reranker_score
         THEN <<Head(s)>> \o InsertDesc(Tail(s), d)
         ELSE <<d>> \o s

\* sorted(documents, key=reranker_score, reverse=True): stable
RECURSIVE SortedDesc(_, _)
SortedDesc(docs, acc) ==
    IF docs = <<>> THEN acc ELSE SortedDesc(Tail(docs), InsertDesc(acc, Head(docs)))

\* a rerank that swallows a failure of the relevance model and answers with
\* the candidates in the order it was given them
Reranker_rerank_swallow(self, documents, top_n, env) ==
    IF ~self.enabled \/ documents = <<>>
    THEN Return(IF top_n # 0 THEN Take(documents, top_n) ELSE documents, NoCalls)
    ELSE LET n == IF top_n # 0 THEN top_n ELSE RERANKER_TOP_N
             scored == [i \in 1..Len(documents) |->
                          Merge(documents[i],
                                [reranker_score |-> env.score[documents[i].id],
                                 original_rank  |-> i])]
         IN  IF ~env.rerank_ok
             THEN Return(Take(documents, n), Called({"reranker"}))
             ELSE Return(Take(SortedDesc(scored, <<>>), n), Called({"reranker"}))

\* Reranker.rerank(query, documents, top_n); env is the relevance model
Reranker_rerank(self, documents, top_n, env) ==
    IF ~self.enabled \/ documents = <<>>
    THEN Return(IF top_n # 0 THEN Take(documents, top_n) ELSE documents, NoCalls)
    ELSE LET n == IF top_n # 0 THEN top_n ELSE RERANKER_TOP_N
             scored == [i \in 1..Len(documents) |->
                          Merge(documents[i],
                                [reranker_score |-> env.score[documents[i].id],
                                 original_rank  |-> i])]
         IN  IF ~env.rerank_ok
             THEN Raise("relevance model error", Called({"reranker"}))
             ELSE Return(Take(SortedDesc(scored, <<>>), n), Called({"reranker"}))

(***************************************************************************)
(* HybridSearch (services/search.py)                                       *)
(***************************************************************************)
\* HybridSearch.__init__ with the reranker it is given
HybridSearch_init(cfg) == [reranker |-> Reranker_init(cfg)]

RerankInEffect(cfg, use_reranker) == use_reranker /\ cfg.RERANKER_ENABLED

RetrievalSize(cfg, top_k, use_reranker) ==
    IF RerankInEffect(cfg, use_reranker) THEN RERANKER_TOP_K
    ELSE IF top_k # 0 THEN top_k ELSE RETRIEVAL_TOP_K

FinalSize(cfg, top_k, use_reranker) ==
    IF RerankInEffect(cfg, use_reranker)
    THEN (IF top_k # 0 THEN top_k ELSE RERANKER_TOP_N)
    ELSE RetrievalSize(cfg, top_k, use_reranker)

\* one hit of the response, parsed: {"id", "score", **_source}
ParseHit(id) == Merge([id |-> id, score |-> IndexScore(id)], IndexSource(id))

\* hybrid_search once the index has answered with results: rerank or truncate
HybridSearch_apply_reranking(self, cfg, top_k, use_reranker, results, env) ==
    LET final == FinalSize(cfg, top_k, use_reranker)
    IN  IF RerankInEffect(cfg, use_reranker) /\ results # <<>>
        THEN LET r == Reranker_rerank(self.reranker, results, final, env)
             IN  [r EXCEPT !.calls = AddCalls(Called({"encoder", "index"}), @)]
        ELSE Return(Take(results, final), Called({"encoder", "index"}))

\* a hybrid_search that asks the index a second time when the first call fails
HybridSearch_hybrid_search_retry(self, cfg, top_k, use_reranker, env) ==
    LET size == RetrievalSize(cfg, top_k, use_reranker)
        hits == IndexSearch(env.matched, size)
        results == [i \in 1..Len(hits) |-> ParseHit(hits[i])]
    IN  IF ~env.encoder_ok THEN Raise("encoder error", Called({"encoder"}))
        ELSE IF ~env.index_ok
             THEN Raise("ConnectionError: index unavailable",
                        AddCalls(Called({"encoder", "index"}), Called({"index"})))
        ELSE HybridSearch_apply_reranking(self, cfg, top_k, use_reranker, results, env)

\* HybridSearch.hybrid_search(query, top_k, use_reranker=...)
HybridSearch_hybrid_search(self, cfg, top_k, use_reranker, env) ==
    LET size == RetrievalSize(cfg, top_k, use_reranker)
        hits == IndexSearch(env.matched, size)
        results == [i \in 1..Len(hits) |-> ParseHit(hits[i])]
    IN  IF ~env.encoder_ok THEN Raise("encoder error", Called({"encoder"}))
        ELSE IF ~env.index_ok
             THEN Raise("ConnectionError: index unavailable", Called({"encoder", "index"}))
        ELSE HybridSearch_apply_reranking(self, cfg, top_k, use_reranker, results, env)

(***************************************************************************)
(* Prompt templates (prompts/prompt_templates.py)                          *)
(***************************************************************************)
\* doc.get(key, ''): a key the document does not carry reads as the empty text
DocGet(doc, key) == IF key \in DOMAIN doc THEN doc[key] ELSE <<>>

\* the text of one document of the context block
format_context_doc(i, doc) ==
    LET question == DocGet(doc, "question")
        context == DocGet(doc, "context")
        extractive == DocGet(doc, "extractive_answer")
        abstractive == DocGet(doc, "abstractive_answer")
        article == DocGet(doc, "article")
        document == DocGet(doc, "document")
    IN  <<"[Tai lieu " \o ToString(i) \o "]">>
        \o (IF Truthy(article) THEN <<"Dieu khoan: ">> \o article ELSE <<>>)
        \o (IF Truthy(document) THEN <<"Van ban: ">> \o document ELSE <<>>)
        \o <<"Cau hoi tuong tu: ">> \o question
        \o (IF Truthy(context) THEN <<"Noi dung quy dinh:">> \o context ELSE <<>>)
        \o (IF Truthy(extractive) THEN <<"Trich xuat: ">> \o extractive ELSE <<>>)
        \o (IF Truthy(abstractive) THEN <<"Tom tat: ">> \o abstractive ELSE <<>>)

\* "\n".join(parts)
RECURSIVE JoinLines(_)
JoinLines(parts) ==
    IF parts = <<>> THEN <<>>
    ELSE IF Len(parts) = 1 THEN Head(parts)
    ELSE Head(parts) \o <<"\n">> \o JoinLines(Tail(parts))

\* a context block that renders every candidate
format_context_all(documents, max_docs) ==
    IF documents = <<>> THEN <<"Khong co thong tin lien quan.">>
    ELSE <<"\n====">> \o JoinLines([i \in 1..Len(documents) |->
                                       format_context_doc(i, documents[i])])

\* format_context(documents, max_docs)
format_context(documents, max_docs) ==
    IF documents = <<>> THEN <<"Khong co thong tin lien quan.">>
    ELSE LET n == Min(Len(documents), max_docs)
         IN  <<"\n====">> \o JoinLines([i \in 1..n |-> format_context_doc(i, documents[i])])

\* build_user_message(query, context)
build_user_message(query, context) ==
    <<"Cau hoi cua nguoi dung: ">> \o query \o <<"CONTEXT: ">> \o context
    \o <<"Hay tra loi cau hoi dua tren CONTEXT tren.">>

(***************************************************************************)
(* AnswerGenerator (services/answer_generator.py)                          *)
(***************************************************************************)
\* Optional[List[message]]: None, or a list of messages
NoHistory == [is_none |-> TRUE, messages |-> <<>>]
SomeHistory(h) == [is_none |-> FALSE, messages |-> h]

\* AnswerGenerator.__init__ that forgets to check the credential
AnswerGenerator_init_no_key_check(cfg) ==
    [enabled |-> cfg.ANSWER_GENERATION_ENABLED, client |-> cfg.ANSWER_GENERATION_ENABLED]

\* AnswerGenerator.__init__: enabled, and whether a client was built
AnswerGenerator_init(cfg) ==
    [enabled |-> cfg.ANSWER_GENERATION_ENABLED /\ cfg.OPENAI_API_KEY,
     client  |-> cfg.ANSWER_GENERATION_ENABLED /\ cfg.OPENAI_API_KEY]

\* history[-n:] ; history[-0:] is the whole list
LastN(history, n) ==
    IF n = 0 THEN history ELSE SubSeq(history, Len(history) - n + 1, Len(history))

\* AnswerGenerator._format_conversation_history
AnswerGenerator_format_conversation_history(history, max_turns) ==
    IF history = <<>> THEN <<>>
    ELSE LastN(history, Min(Len(history), max_turns * 2))

ZeroTokens == [prompt |-> 0, completion |-> 0, total |-> 0]

\* a fallback text that prefers the extractive answer and always adds the suffix
fallback_answer_text_extractive_first(top_doc) ==
    (IF Truthy(top_doc.extractive_answer) THEN top_doc.extractive_answer
     ELSE IF Truthy(top_doc.abstractive_answer) THEN top_doc.abstractive_answer
     ELSE CANNOT_ANSWER)
    \o <<SOURCE_PREFIX>> \o top_doc.article \o <<SOURCE_SEP>> \o top_doc.document

\* the answer text of the fallback for a non-empty candidate list
fallback_answer_text(top_doc) ==
    LET answer == IF Truthy(top_doc.abstractive_answer) THEN top_doc.abstractive_answer
                  ELSE IF Truthy(top_doc.extractive_answer) THEN top_doc.extractive_answer
                  ELSE CANNOT_ANSWER
        source_info == <<SOURCE_PREFIX>>
                       \o (IF Truthy(top_doc.article) THEN top_doc.article ELSE <<>>)
                       \o (IF Truthy(top_doc.document)
                           THEN <<SOURCE_SEP>> \o top_doc.document ELSE <<>>)
    IN  IF Truthy(top_doc.article) \/ Truthy(top_doc.document)
        THEN answer \o source_info ELSE answer

\* a fallback that reports its answer as generated when it has a candidate
AnswerGenerator_fallback_answer_marks_generated(retrieved_contexts, error) ==
    IF retrieved_contexts = <<>>
    THEN [answer |-> NO_INFO_ANSWER, model |-> "fallback", tokens_used |-> ZeroTokens,
          finish_reason |-> "no_context", num_contexts_used |-> 0,
          generation_successful |-> FALSE, fallback_used |-> TRUE, error |-> error]
    ELSE [answer |-> fallback_answer_text(retrieved_contexts[1]), model |-> "fallback",
          tokens_used |-> ZeroTokens, finish_reason |-> "fallback",
          num_contexts_used |-> Len(retrieved_contexts),
          generation_successful |-> TRUE, fallback_used |-> TRUE, error |-> error]

\* AnswerGenerator._fallback_answer(retrieved_contexts, error)
AnswerGenerator_fallback_answer(retrieved_contexts, error) ==
    IF retrieved_contexts = <<>>
    THEN [answer |-> NO_INFO_ANSWER, model |-> "fallback", tokens_used |-> ZeroTokens,
          finish_reason |-> "no_context", num_contexts_used |-> 0,
          generation_successful |-> FALSE, fallback_used |-> TRUE, error |-> error]
    ELSE [answer |-> fallback_answer_text(retrieved_contexts[1]), model |-> "fallback",
          tokens_used |-> ZeroTokens, finish_reason |-> "fallback",
          num_contexts_used |-> Len(retrieved_contexts),
          generation_successful |-> FALSE, fallback_used |-> TRUE, error |-> error]

\* the characters a generated text is made of, and the texts of the service
Chars == {" ", "g"}
Contents == SeqsUpTo(Chars, MaxContentLen)

\* What the prompt builder, the audit logger, the generation service and the
\* clock do during one call of generate_answer.  content_none: the response
\* carries no text (message.content is None).
GenEnvs ==
    {e \in [format_ok : BOOLEAN, log_request_ok : BOOLEAN, create_ok : BOOLEAN,
            content_none : BOOLEAN, content : Contents, elapsed : 0..MaxElapsed,
            log_response_ok : BOOLEAN, log_error_ok : BOOLEAN] :
        LET failed == ~(e.format_ok /\ e.log_request_ok /\ e.create_ok
                        /\ ~e.content_none /\ e.log_response_ok)
        IN  /\ (~e.format_ok) => e.log_request_ok
            /\ (~(e.format_ok /\ e.log_request_ok)) => e.create_ok
            /\ (~(e.format_ok /\ e.log_request_ok /\ e.create_ok)) => ~e.content_none
            /\ (e.content_none \/ ~e.create_ok \/ ~e.log_request_ok \/ ~e.format_ok)
                   => e.log_response_ok
            /\ failed => (e.content = <<>> /\ e.elapsed = 0)
            /\ (~failed) => e.log_error_ok}

\* the messages handed to the generation service
build_messages(query, retrieved_contexts, conversation_history) ==
    <<[role |-> "system", content |-> SYSTEM_PROMPT]>>
    \o (IF ~conversation_history.is_none /\ conversation_history.messages # <<>>
        THEN AnswerGenerator_format_conversation_history(conversation_history.messages,
                                       MAX_CONVERSATION_HISTORY)
        ELSE <<>>)
    \o <<[role |-> "user",
          content |-> build_user_message(query,
                         format_context(retrieved_contexts, ANSWER_MAX_CONTEXT_DOCS))]>>

\* the usage the generation service reports
ServiceUsage == [prompt_tokens |-> 7, completion_tokens |-> 3, total_tokens |-> 10]

\* the except branch of generate_answer: log the error, then fall back
AnswerGenerator_generate_answer_except(retrieved_contexts, e, calls, env) ==
    IF env.log_error_ok
    THEN Return(AnswerGenerator_fallback_answer(retrieved_contexts, e), AddCalls(calls, Called({"log_error"})))
    ELSE Raise("OSError: audit log write failed", AddCalls(calls, Called({"log_error"})))

\* AnswerGenerator.generate_answer(query, retrieved_contexts, conversation_history)
AnswerGenerator_generate_answer(self, query, retrieved_contexts, conversation_history, env) ==
    IF ~self.enabled \/ ~self.client
    THEN Return(AnswerGenerator_fallback_answer(retrieved_contexts, None), NoCalls)
    ELSE IF ~env.format_ok
         THEN AnswerGenerator_generate_answer_except(retrieved_contexts, "format_context error", NoCalls, env)
    ELSE IF ~env.log_request_ok
         THEN AnswerGenerator_generate_answer_except(retrieved_contexts, "OSError: audit log write failed",
                             Called({"log_request"}), env)
    ELSE IF ~env.create_ok
         THEN AnswerGenerator_generate_answer_except(retrieved_contexts, "APIConnectionError",
                             Called({"log_request", "generation"}), env)
    ELSE IF env.content_none
         THEN AnswerGenerator_generate_answer_except(retrieved_contexts, "AttributeError: NoneType has no strip",
                             Called({"log_request", "generation"}), env)
    ELSE IF ~env.log_response_ok
         THEN AnswerGenerator_generate_answer_except(retrieved_contexts, "OSError: audit log write failed",
                             Called({"log_request", "generation", "log_response"}), env)
    ELSE Return([answer |-> Strip(env.content), model |-> "ANSWER_GENERATION_MODEL",
                 tokens_used |-> ServiceUsage, finish_reason |-> "stop",
                 num_contexts_used |-> Len(retrieved_contexts),
                 generation_successful |-> TRUE, fallback_used |-> FALSE,
                 response_time |-> env.elapsed],
                Called({"log_request", "generation", "log_response"}))

(***************************************************************************)
(* OpenAILogger (core/openai_logger.py) and the audit records the          *)
(* generator writes through it.                                            *)
(***************************************************************************)
\* OpenAILogger.__init__
OpenAILogger_init == [request_count |-> 0]

\* the module app.core.openai_logger when it is imported: the global
\* _openai_logger is None (0) and no OpenAILogger object exists.  objects
\* holds the OpenAILogger objects constructed, _openai_logger the index of one.
NoLogger == [_openai_logger |-> 0, objects |-> <<>>]

\* the branch of get_openai_logger() taken when _openai_logger was None:
\* _openai_logger = OpenAILogger(); return _openai_logger
get_openai_logger_new(m) ==
    [_openai_logger |-> Len(m.objects) + 1, objects |-> Append(m.objects, OpenAILogger_init)]

\* get_openai_logger() run without interruption: the module after it; the
\* object returned is the one _openai_logger then names
get_openai_logger(m) == IF m._openai_logger = 0 THEN get_openai_logger_new(m) ELSE m

\* log_request, first statement: self.request_count += 1
OpenAILogger_log_request(self) == [self EXCEPT !.request_count = @ + 1]

\* the module after log_request incremented the counter of its object id
log_request_on(m, id) == [m EXCEPT !.objects[id] = OpenAILogger_log_request(@)]

\* the second the clock shows: the calls of the model fall within one second
Clock == {0}

\* log_request, second statement: the request id, from the clock and from the
\* value request_count has when it is read
request_id_of(now, request_count) ==
    "req_" \o ToString(now) \o "_" \o ToString(request_count)

\* whether generate_answer gets past its check of enabled and client and so
\* asks for the audit logger
AnswerGenerator_asks_logger(self) == self.enabled /\ self.client

\* the module after one call of generate_answer, run without interruption by
\* the generator self, that made the calls c
OpenAILogger_after(m, self, c) ==
    IF ~AnswerGenerator_asks_logger(self) THEN m
    ELSE LET got == get_openai_logger(m)
         IN  IF c["log_request"] > 0 THEN log_request_on(got, got._openai_logger) ELSE got

\* log_openai_interaction(conversation_id, ...) run without interruption on
\* the module m: log_request, then log_response with the request id; nothing
\* catches a write that fails.  The outcome has the module after the call and
\* the records written.
log_openai_interaction(m, conversation_id, now, request_ok, response_ok) ==
    LET got == get_openai_logger(m)
        after == log_request_on(got, got._openai_logger)
        request_id == request_id_of(now, after.objects[after._openai_logger].request_count)
        record(type) == [type |-> type, conversation_id |-> conversation_id,
                         request_id |-> request_id]
    IN  [module |-> after,
         records |-> (IF request_ok THEN <<record("REQUEST")>> ELSE <<>>)
                     \o (IF request_ok /\ response_ok THEN <<record("RESPONSE")>> ELSE <<>>),
         out |-> IF ~request_ok
                 THEN Raise("OSError: audit log write failed", Called({"log_request"}))
                 ELSE IF ~response_ok
                 THEN Raise("OSError: audit log write failed",
                            Called({"log_request", "log_response"}))
                 ELSE Return(None, Called({"log_request", "log_response"}))]

\* conversation_id = conversation_id or f"conv_{int(time.time())}"
AnswerGenerator_conversation_id(conversation_id, now) ==
    IF conversation_id \notin {None, ""} THEN conversation_id
    ELSE "conv_" \o ToString(now)

\* the records one call of generate_answer wrote to the audit log, given the
\* calls c it made of the logger and the value of request_count that log_request
\* read for the request id: a record is written when its write succeeds
AnswerGenerator_audit(request_count, conversation_id, c, env, now) ==
    LET cid == AnswerGenerator_conversation_id(conversation_id, now)
        request_id == request_id_of(now, request_count)
        record(type) == [type |-> type, conversation_id |-> cid, request_id |-> request_id]
    IN  (IF c["log_request"] > 0 /\ env.log_request_ok THEN <<record("REQUEST")>> ELSE <<>>)
        \o (IF c["log_response"] > 0 /\ env.log_response_ok
            THEN <<record("RESPONSE")>> ELSE <<>>)
        \o (IF c["log_error"] > 0 /\ env.log_error_ok
            THEN <<[type |-> "ERROR", conversation_id |-> cid]>> ELSE <<>>)

(***************************************************************************)
(* AdmissionsChatbotWorkflow (workflows/chatbot_workflow.py): the state    *)
(* of one process serving one call of run.                                 *)
(***************************************************************************)
VARIABLES
    settings,          \* app.config.settings, fixed when the process starts
    search_engine,     \* the workflow's HybridSearch
    answer_generator,  \* the workflow's AnswerGenerator
    pc,                \* where the call is: "idle", a node of the graph, "end", "done"
    arg_query,         \* the query argument of run
    state,             \* the ChatbotState threaded through the graph
    result,            \* the record run returned
    faulted,           \* the except branch of run was taken
    calls,             \* how many times each external service was called
    trace,             \* the nodes executed so far, in order
    search_call,       \* the last call of hybrid_search and its outcome
    ag_call,           \* the last call of AnswerGenerator.generate_answer and its outcome
    direct_call,       \* the last direct call of a component operation and its outcome
    responses,         \* what the services answer, when that is fixed for several runs
    first_run,         \* the record the first of two runs returned
    instances,         \* the module globals of app.core.instances
    clients,           \* the clients cached by app.core.elasticsearch and app.core.mongodb
    lifecycle,         \* the last completed lifecycle call: "none", "initialize", "shutdown"
    requests,          \* the calls of process_chat_query, each with its local variables
    store,             \* the conversations collection: conversation_id -> messages
    openai_logger,     \* the module app.core.openai_logger: its global and its objects
    uuids              \* how many uuid4 values have been drawn

vars == <<settings, search_engine, answer_generator, pc, arg_query, state, result,
          faulted, calls, trace, search_call, ag_call, direct_call, responses, first_run,
          instances, clients, lifecycle, requests, store, openai_logger, uuids>>

\* the variables of one call of run and of its workflow
wf == <<settings, search_engine, answer_generator, pc, arg_query, state, result,
        faulted, calls, trace, search_call, ag_call>>

\* the singletons and their clients; the chat requests and the store
app == <<instances, clients, lifecycle>>
chat == <<requests, store, uuids>>

\* the variables a node of the graph leaves alone, but for the audit logger
aux_node == <<direct_call, responses, first_run, app, chat>>

\* the variables only the direct calls, the repeated runs, the lifecycle, the
\* chat service and the audit logger write
aux == <<aux_node, openai_logger>>

EmptyDict == [k \in {} |-> None]
NoState == EmptyDict
NoResult == EmptyDict
NoCall == [called |-> FALSE]
\* the services answer each call as they like
FreeResponses == [fixed |-> FALSE]
\* no run is over yet
NoRun == [done |-> FALSE]

Nodes == {"validate_input", "retrieve_context", "generate_answer",
          "handle_no_context", "format_output"}

Settings == [ANSWER_GENERATION_ENABLED : BOOLEAN, OPENAI_API_KEY : BOOLEAN,
             RERANKER_ENABLED : BOOLEAN]

\* the query texts and histories a caller passes to run
QueryChars == {" ", "a"}
Queries == SeqsUpTo(QueryChars, MaxQueryLen)
\* the i-th message of a conversation: user and assistant take turns
Message(i) == [role |-> IF i % 2 = 1 THEN "user" ELSE "assistant",
               content |-> <<"message" \o ToString(i)>>]
Histories == {NoHistory} \cup {SomeHistory([i \in 1..n |-> Message(i)]) : n \in 0..MaxHistory}

\* what the services answer to the calls of this run: anything, or, when the
\* answers are fixed for several runs, the fixed ones
SearchChoices == IF responses.fixed THEN {responses.search} ELSE SearchEnvs

\* the clock is no answer of a service: the time the generation call takes
\* may differ from run to run
GenChoices ==
    IF responses.fixed
    THEN {e \in GenEnvs : [e EXCEPT !.elapsed = 0] = [responses.gen EXCEPT !.elapsed = 0]}
    ELSE GenEnvs

\* the call of the generation service made inside one call of generate_answer
\* with outcome r: whether it was made, whether it returned, what was sent
GenerationCall(r, env, query, retrieved_contexts, conversation_history) ==
    [made     |-> r.calls["generation"] > 0,
     returned |-> r.calls["generation"] > 0 /\ env.create_ok,
     messages |-> IF r.calls["generation"] > 0
                  THEN build_messages(query, retrieved_contexts, conversation_history)
                  ELSE <<>>]

(***************************************************************************)
(* The singletons (core/instances.py, core/elasticsearch.py,               *)
(* core/mongodb.py, core/openai_logger.py) and the chat requests           *)
(* (services/chat_service.py).  A global that is None is NoHandle.         *)
(***************************************************************************)
NoHandle == [is_none |-> TRUE]
Handle(fields) == Merge([is_none |-> FALSE], fields)

\* the globals of app.core.instances when the module is imported
NoInstances ==
    [_elasticsearch_client |-> NoHandle, _mongodb_client |-> NoHandle,
     _embedding_model |-> NoHandle, _reranker_model |-> NoHandle,
     _search_service |-> NoHandle, _answer_generator |-> NoHandle,
     _chatbot_workflow |-> NoHandle]

\* the globals _es_client, _sync_client and _async_client when their modules are
\* imported;
\* made counts the client objects constructed, closed holds those closed
NoClients ==
    [_es_client |-> NoHandle, _sync_client |-> NoHandle, _async_client |-> NoHandle,
     made |-> 0, closed |-> {}]

\* the calls of process_chat_query that may be in flight together
Requests == {"r1", "r2"}
IdleRequest == [pc |-> "idle"]

\* a process that has imported its modules and serves no chat request
InitApp ==
    /\ instances = NoInstances
    /\ clients = NoClients
    /\ lifecycle = "none"
    /\ requests = [r \in Requests |-> IdleRequest]
    /\ store = EmptyDict
    /\ openai_logger = NoLogger
    /\ uuids = 0

\* the process after its singletons are built
Init ==
    /\ settings \in Settings
    /\ search_engine = HybridSearch_init(settings)
    /\ answer_generator = AnswerGenerator_init(settings)
    /\ pc = "idle"
    /\ arg_query = <<>>
    /\ state = NoState
    /\ result = NoResult
    /\ faulted = FALSE
    /\ calls = NoCalls
    /\ trace = <<>>
    /\ search_call = NoCall
    /\ ag_call = NoCall
    /\ direct_call = NoCall
    /\ responses = FreeResponses
    /\ first_run = NoRun
    /\ InitApp

\* the ChatbotState run starts the graph with
initial_state(query, conversation_history) ==
    [query |-> query, conversation_history |-> conversation_history,
     retrieved_documents |-> <<>>, context |-> <<>>, answer |-> <<>>,
     sources |-> <<>>, metadata |-> EmptyDict, should_retrieve |-> TRUE,
     has_context |-> FALSE, error |-> None]

\* run(query, conversation_history): the initial state, then the entry node
run(query, conversation_history) ==
    /\ pc = "idle"
    /\ arg_query' = query
    /\ state' = initial_state(query, conversation_history)
    /\ pc' = "validate_input"
    /\ UNCHANGED <<settings, search_engine, answer_generator, result, faulted, calls,
                   trace, search_call, ag_call>>
    /\ UNCHANGED aux

\* a validate_input that marks the error but does not short-circuit retrieval
validate_input_state_no_short_circuit(s) ==
    LET query == Strip(s.query)
    IN  IF ~Truthy(query)
        THEN [s EXCEPT !.error = "Empty query", !.should_retrieve = TRUE]
        ELSE [s EXCEPT !.query = query, !.should_retrieve = TRUE, !.error = None]

\* state after node validate_input
validate_input_state(s) ==
    LET query == Strip(s.query)
    IN  IF ~Truthy(query)
        THEN [s EXCEPT !.error = "Empty query", !.should_retrieve = FALSE]
        ELSE [s EXCEPT !.query = query, !.should_retrieve = TRUE, !.error = None]

\* node validate_input, then the edge to retrieve_context
validate_input ==
    /\ pc = "validate_input"
    /\ state' = validate_input_state(state)
    /\ trace' = Append(trace, "validate_input")
    /\ pc' = "retrieve_context"
    /\ UNCHANGED <<settings, search_engine, answer_generator, arg_query, result, faulted,
                   calls, search_call, ag_call>>
    /\ UNCHANGED aux

\* a conditional edge that skips the no-context node
check_context_skip(s) == IF s.has_context THEN "generate_answer" ELSE "format_output"

\* the conditional edge after retrieve_context
check_context(s) == IF s.has_context THEN "generate_answer" ELSE "handle_no_context"

\* a retrieve_context that records the error but keeps has_context set
retrieve_context_state_keeps_context(s, r) ==
    IF r.raised
    THEN [s EXCEPT !.retrieved_documents = <<>>, !.has_context = TRUE,
                   !.error = "Retrieval error: " \o r.exc]
    ELSE [s EXCEPT !.retrieved_documents = r.value, !.has_context = Len(r.value) > 0]

\* state after retrieve_context, given the outcome r of hybrid_search
retrieve_context_state(s, r) ==
    IF r.raised
    THEN [s EXCEPT !.retrieved_documents = <<>>, !.has_context = FALSE,
                   !.error = "Retrieval error: " \o r.exc]
    ELSE [s EXCEPT !.retrieved_documents = r.value, !.has_context = Len(r.value) > 0]

\* node retrieve_context, then the conditional edge
retrieve_context ==
    /\ pc = "retrieve_context"
    /\ IF ~state.should_retrieve
       THEN /\ state' = [state EXCEPT !.retrieved_documents = <<>>, !.has_context = FALSE]
            /\ UNCHANGED <<calls, search_call>>
       ELSE \E env \in SearchChoices :
              LET r == HybridSearch_hybrid_search(search_engine, settings,
                                                  RERANKER_TOP_N, TRUE, env)
              IN  /\ state' = retrieve_context_state(state, r)
                  /\ calls' = AddCalls(calls, r.calls)
                  /\ search_call' = [called |-> TRUE, raised |-> r.raised, exc |-> r.exc,
                                     rerank_failed |-> r.calls["reranker"] > 0
                                                       /\ ~env.rerank_ok]
    /\ trace' = Append(trace, "retrieve_context")
    /\ pc' = check_context(state')
    /\ UNCHANGED <<settings, search_engine, answer_generator, arg_query, result, faulted,
                   ag_call>>
    /\ UNCHANGED aux

\* a generate_answer node that also reports how long the generation took
generate_answer_state_with_response_time(s, r) ==
    IF r.raised
    THEN [s EXCEPT !.answer = GENERATION_ERROR_ANSWER,
                   !.error = "Generation error: " \o r.exc,
                   !.metadata = [generation_successful |-> FALSE, error |-> r.exc]]
    ELSE [s EXCEPT !.answer = r.value.answer,
                   !.metadata = [generation_model |-> r.value.model,
                                 tokens_used |-> r.value.tokens_used,
                                 generation_successful |-> r.value.generation_successful,
                                 fallback_used |-> r.value.fallback_used,
                                 response_time |-> IF "response_time" \in DOMAIN r.value
                                                   THEN r.value.response_time ELSE 0]]

\* a generate_answer node that apologises when the generator raises but
\* records neither the error nor the failure
generate_answer_state_forgets_error(s, r) ==
    IF r.raised
    THEN [s EXCEPT !.answer = GENERATION_ERROR_ANSWER]
    ELSE [s EXCEPT !.answer = r.value.answer,
                   !.metadata = [generation_model |-> r.value.model,
                                 tokens_used |-> r.value.tokens_used,
                                 generation_successful |-> r.value.generation_successful,
                                 fallback_used |-> r.value.fallback_used]]

\* state after node generate_answer, given the outcome r of the generator
generate_answer_state(s, r) ==
    IF r.raised
    THEN [s EXCEPT !.answer = GENERATION_ERROR_ANSWER,
                   !.error = "Generation error: " \o r.exc,
                   !.metadata = [generation_successful |-> FALSE, error |-> r.exc]]
    ELSE [s EXCEPT !.answer = r.value.answer,
                   !.metadata = [generation_model |-> r.value.model,
                                 tokens_used |-> r.value.tokens_used,
                                 generation_successful |-> r.value.generation_successful,
                                 fallback_used |-> r.value.fallback_used]]

\* node generate_answer, then the edge to format_output
generate_answer ==
    /\ pc = "generate_answer"
    /\ \E env \in GenChoices :
         LET r == AnswerGenerator_generate_answer(answer_generator, state.query,
                      state.retrieved_documents, state.conversation_history, env)
         IN  /\ state' = generate_answer_state(state, r)
             /\ calls' = AddCalls(calls, r.calls)
             /\ ag_call' = [called |-> TRUE, query |-> state.query,
                            contexts |-> state.retrieved_documents,
                            history |-> state.conversation_history, out |-> r,
                            service |-> GenerationCall(r, env, state.query,
                                            state.retrieved_documents,
                                            state.conversation_history)]
             /\ openai_logger' = OpenAILogger_after(openai_logger, answer_generator, r.calls)
    /\ trace' = Append(trace, "generate_answer")
    /\ pc' = "format_output"
    /\ UNCHANGED <<settings, search_engine, answer_generator, arg_query, result, faulted,
                   search_call>>
    /\ UNCHANGED aux_node

\* state after node handle_no_context
handle_no_context_state(s) ==
    [s EXCEPT !.answer = NO_CONTEXT_ANSWER,
              !.metadata = [generation_successful |-> FALSE, fallback_used |-> TRUE,
                            reason |-> "no_context_found"]]

\* node handle_no_context, then the edge to format_output
handle_no_context ==
    /\ pc = "handle_no_context"
    /\ state' = handle_no_context_state(state)
    /\ trace' = Append(trace, "handle_no_context")
    /\ pc' = "format_output"
    /\ UNCHANGED <<settings, search_engine, answer_generator, arg_query, result, faulted,
                   calls, search_call, ag_call>>
    /\ UNCHANGED aux

\* one entry of sources
format_source(doc) ==
    LET source == [question |-> doc.question, article |-> doc.article,
                   document |-> doc.document, score |-> doc.score]
    IN  IF "reranker_score" \in DOMAIN doc
        THEN Merge(source, [reranker_score |-> doc.reranker_score])
        ELSE source

\* a selection of sources that keeps every candidate
top_documents_all(docs) == docs

\* state.get("retrieved_documents", [])[:3]
top_documents(docs) == Take(docs, MAX_SOURCES)

\* state after node format_output
format_output_state(s, cfg) ==
    LET docs == top_documents(s.retrieved_documents)
    IN  [s EXCEPT
            !.sources = [i \in 1..Len(docs) |-> format_source(docs[i])],
            !.metadata = Merge(@,
                [num_documents_retrieved |-> Len(s.retrieved_documents),
                 retrieval_method |-> "hybrid_search_with_reranking",
                 reranker_enabled |-> cfg.RERANKER_ENABLED,
                 workflow |-> "langgraph"])]

\* node format_output, then the edge to END
format_output ==
    /\ pc = "format_output"
    /\ state' = format_output_state(state, settings)
    /\ trace' = Append(trace, "format_output")
    /\ pc' = "end"
    /\ UNCHANGED <<settings, search_engine, answer_generator, arg_query, result, faulted,
                   calls, search_call, ag_call>>
    /\ UNCHANGED aux

\* the record run builds from the final state
run_record(s) ==
    [query |-> s.query, answer |-> s.answer, sources |-> s.sources, metadata |-> s.metadata]

\* run: workflow.invoke returned, the record is built
run_return ==
    /\ pc = "end"
    /\ result' = run_record(state)
    /\ pc' = "done"
    /\ UNCHANGED <<settings, search_engine, answer_generator, arg_query, state, faulted,
                   calls, trace, search_call, ag_call>>
    /\ UNCHANGED aux

\* a run without its except branch: the exception leaves run, nothing is returned
run_propagates ==
    /\ pc \in Nodes
    /\ faulted' = TRUE
    /\ pc' = "done"
    /\ UNCHANGED <<settings, search_engine, answer_generator, arg_query, state, result,
                   calls, trace, search_call, ag_call>>
    /\ UNCHANGED aux

\* run: an exception left workflow.invoke (a node of the graph, or the graph
\* runtime, raised it) and the except branch builds the record
run_except ==
    /\ pc \in Nodes
    /\ result' = [query |-> arg_query, answer |-> WORKFLOW_ERROR_ANSWER, sources |-> <<>>,
                  metadata |-> [error |-> "unexpected error in " \o pc,
                                workflow |-> "langgraph",
                                generation_successful |-> FALSE]]
    /\ faulted' = TRUE
    /\ pc' = "done"
    /\ UNCHANGED <<settings, search_engine, answer_generator, arg_query, state, calls,
                   trace, search_call, ag_call>>
    /\ UNCHANGED aux

Next ==
    \/ \E query \in Queries, conversation_history \in Histories :
          run(query, conversation_history)
    \/ validate_input
    \/ retrieve_context
    \/ generate_answer
    \/ handle_no_context
    \/ format_output
    \/ run_return

\* one call of run in which only the external services may fail
Spec == Init /\ [][Next]_vars

\* one call of run in which, besides, any node may raise unexpectedly
SpecFault == Init /\ [][Next \/ run_except]_vars

(***************************************************************************)
(* AnswerGenerator.generate_answer called directly, with any candidate     *)
(* list: a candidate carries each of its two answers, each of its two      *)
(* provenance fields and its regulation text, or not.                      *)
(***************************************************************************)
candidate(abstractive, extractive, article, document, context) ==
    [id |-> 0, score |-> 0, question |-> <<"question">>,
     context            |-> Field("context", 0, context),
     article            |-> Field("article", 0, article),
     document           |-> Field("document", 0, document),
     extractive_answer  |-> Field("extractive", 0, extractive),
     abstractive_answer |-> Field("abstractive", 0, abstractive)]

Candidates == {candidate(a, e, art, d, c) : a \in BOOLEAN, e \in BOOLEAN,
                                            art \in BOOLEAN, d \in BOOLEAN,
                                            c \in BOOLEAN}
\* the candidates after the first carry all five fields or none of them
LaterCandidates == {candidate(b, b, b, b, b) : b \in BOOLEAN}
GenContexts ==
    {<<>>} \cup {<<c>> \o rest : c \in Candidates,
                                 rest \in SeqsUpTo(LaterCandidates, MaxContexts - 1)}

\* a caller invokes answer_generator.generate_answer(query, contexts, history)
direct_generate_answer(query, retrieved_contexts, conversation_history) ==
    /\ pc = "idle"
    /\ \E env \in GenEnvs :
         LET r == AnswerGenerator_generate_answer(answer_generator, query,
                      retrieved_contexts, conversation_history, env)
         IN  /\ ag_call' = [called |-> TRUE, query |-> query,
                            contexts |-> retrieved_contexts,
                            history |-> conversation_history, out |-> r,
                            service |-> GenerationCall(r, env, query, retrieved_contexts,
                                                       conversation_history)]
             /\ calls' = AddCalls(calls, r.calls)
             /\ openai_logger' = OpenAILogger_after(openai_logger, answer_generator, r.calls)
    /\ pc' = "returned"
    /\ UNCHANGED <<settings, search_engine, answer_generator, arg_query, state, result,
                   faulted, trace, search_call>>
    /\ UNCHANGED aux_node

\* a caller invokes log_openai_interaction(conversation_id, ...)
direct_log_openai_interaction(conversation_id) ==
    /\ pc = "idle"
    /\ \E now \in Clock, request_ok \in BOOLEAN, response_ok \in BOOLEAN :
         LET r == log_openai_interaction(openai_logger, conversation_id, now,
                                         request_ok, response_ok)
         IN  /\ openai_logger' = r.module
             /\ calls' = AddCalls(calls, r.out.calls)
             /\ direct_call' = [called |-> TRUE, op |-> "log_openai_interaction",
                                conversation_id |-> conversation_id,
                                records |-> r.records, out |-> r.out]
    /\ pc' = "returned"
    /\ UNCHANGED <<settings, search_engine, answer_generator, arg_query, state, result,
                   faulted, trace, search_call, ag_call, responses, first_run, app, chat>>

NextGen ==
    \/ \E retrieved_contexts \in GenContexts :
          direct_generate_answer(<<"a">>, retrieved_contexts, NoHistory)
    \/ \E conversation_id \in {"c1", "c2"} : direct_log_openai_interaction(conversation_id)

\* one direct call of AnswerGenerator.generate_answer
SpecGen == Init /\ [][NextGen]_vars

(***************************************************************************)
(* Reranker.rerank called directly on a pool of candidates: the first n    *)
(* hits of an index, in the order of the index.  top_n is supplied or not  *)
(* (None, which the model writes 0).                                       *)
(***************************************************************************)
Pool(n) == [i \in 1..n |-> ParseHit(i)]

\* what the relevance model does with a pool of n candidates
RerankEnvs(n) ==
    {e \in [rerank_ok : BOOLEAN, score : [1..n -> Scores]] :
        (~e.rerank_ok) => \A i \in 1..n : e.score[i] = 0}

\* a caller invokes reranker.rerank(query, documents, top_n)
direct_rerank(documents, top_n, supplied) ==
    /\ pc = "idle"
    /\ supplied \/ top_n = 0
    /\ \E env \in RerankEnvs(Len(documents)) :
         LET r == Reranker_rerank(search_engine.reranker, documents, top_n, env)
         IN  /\ direct_call' = [called |-> TRUE, op |-> "rerank",
                                documents |-> documents, top_n |-> top_n,
                                supplied |-> supplied,
                                scores |-> IF r.calls["reranker"] > 0 /\ ~r.raised
                                           THEN env.score ELSE <<>>,
                                out |-> r]
             /\ calls' = AddCalls(calls, r.calls)
    /\ pc' = "returned"
    /\ UNCHANGED <<settings, search_engine, answer_generator, arg_query, state, result,
                   faulted, trace, search_call, ag_call, responses, first_run,
                   app, chat, openai_logger>>

NextRerank ==
    \E n \in 0..MaxPool, top_n \in 0..(MaxPool + 1), supplied \in BOOLEAN :
        direct_rerank(Pool(n), top_n, supplied)

\* one direct call of Reranker.rerank
SpecRerank == Init /\ [][NextRerank]_vars

(***************************************************************************)
(* HybridSearch.hybrid_search called directly, with any top_k (0 stands    *)
(* for a missing top_k as well) and with or without use_reranker.          *)
(***************************************************************************)
TopKs == 0..(RERANKER_TOP_K + 1)

\* a caller invokes search_engine.hybrid_search(query, top_k, use_reranker=...)
direct_hybrid_search(top_k, use_reranker) ==
    /\ pc = "idle"
    /\ \E env \in SearchEnvs :
         LET r == HybridSearch_hybrid_search(search_engine, settings, top_k,
                                             use_reranker, env)
         IN  /\ direct_call' = [called |-> TRUE, op |-> "hybrid_search",
                                top_k |-> top_k, use_reranker |-> use_reranker,
                                index_called |-> r.calls["index"] > 0,
                                index_size |-> RetrievalSize(settings, top_k, use_reranker),
                                out |-> r]
             /\ calls' = AddCalls(calls, r.calls)
    /\ pc' = "returned"
    /\ UNCHANGED <<settings, search_engine, answer_generator, arg_query, state, result,
                   faulted, trace, search_call, ag_call, responses, first_run,
                   app, chat, openai_logger>>

\* the fixed answers of search_and_generate when it does not generate
NO_ANSWER_FOUND == <<"Khong tim thay cau tra loi phu hop.">>
SEARCH_NO_INFO_ANSWER == <<"Xin loi, toi khong tim thay thong tin lien quan den cau hoi cua ban.">>

\* HybridSearch.search_and_generate(query, top_k, include_generation,
\* conversation_history); env is what the search services do, gen_env what
\* the generation service and the audit logger do.  self.answer_generator is
\* read as an attribute of the object __init__ built.
HybridSearch_search_and_generate(self, cfg, query, top_k, include_generation, conversation_history, env, gen_env) ==
    LET r == HybridSearch_hybrid_search(self, cfg, top_k, TRUE, env)
        retrieved_documents == r.value
        response(generated_answer, generation_metadata) ==
            [query |-> query, generated_answer |-> generated_answer,
             retrieved_documents |-> retrieved_documents,
             metadata |-> Merge(
                 [retrieval_method |-> "hybrid_search_with_reranking",
                  num_documents_retrieved |-> Len(retrieved_documents),
                  num_documents_used |->
                      IF "num_contexts_used" \in DOMAIN generation_metadata
                      THEN generation_metadata.num_contexts_used
                      ELSE Len(retrieved_documents),
                  generation_model |-> generation_metadata.model,
                  reranker_enabled |-> cfg.RERANKER_ENABLED,
                  answer_generation_enabled |-> cfg.ANSWER_GENERATION_ENABLED],
                 generation_metadata)]
    IN  IF r.raised THEN r
        ELSE IF include_generation /\ cfg.ANSWER_GENERATION_ENABLED
        THEN IF "answer_generator" \notin DOMAIN self
             THEN Raise("AttributeError: 'HybridSearch' object has no attribute 'answer_generator'",
                        r.calls)
             ELSE LET g == AnswerGenerator_generate_answer(self.answer_generator, query,
                               retrieved_documents, conversation_history, gen_env)
                      v == g.value
                      generation_metadata ==
                          [model |-> v.model, tokens_used |-> v.tokens_used,
                           finish_reason |-> v.finish_reason,
                           generation_successful |-> v.generation_successful,
                           fallback_used |-> v.fallback_used]
                  IN  IF g.raised THEN Raise(g.exc, AddCalls(r.calls, g.calls))
                      ELSE Return(response(v.answer,
                                      IF "error" \in DOMAIN v
                                      THEN Merge(generation_metadata, [error |-> v.error])
                                      ELSE generation_metadata),
                                  AddCalls(r.calls, g.calls))
        ELSE LET generated_answer ==
                     IF retrieved_documents # <<>>
                     THEN IF Truthy(retrieved_documents[1].abstractive_answer)
                          THEN retrieved_documents[1].abstractive_answer
                          ELSE IF Truthy(retrieved_documents[1].extractive_answer)
                          THEN retrieved_documents[1].extractive_answer
                          ELSE NO_ANSWER_FOUND
                     ELSE SEARCH_NO_INFO_ANSWER
             IN  Return(response(generated_answer,
                                 [model |-> "none", tokens_used |-> ZeroTokens,
                                  generation_successful |-> FALSE, fallback_used |-> TRUE]),
                        r.calls)

\* a caller invokes search_engine.search_and_generate(query, top_k, include_generation)
direct_search_and_generate(query, top_k, include_generation) ==
    /\ pc = "idle"
    /\ \E env \in SearchEnvs :
       \E gen_env \in IF include_generation /\ settings.ANSWER_GENERATION_ENABLED
                      THEN GenEnvs ELSE {CHOOSE e \in GenEnvs : TRUE} :
         LET r == HybridSearch_search_and_generate(search_engine, settings, query, top_k,
                      include_generation, NoHistory, env, gen_env)
         IN  /\ direct_call' = [called |-> TRUE, op |-> "search_and_generate",
                                query |-> query, top_k |-> top_k,
                                include_generation |-> include_generation, out |-> r]
             /\ calls' = AddCalls(calls, r.calls)
    /\ pc' = "returned"
    /\ UNCHANGED <<settings, search_engine, answer_generator, arg_query, state, result,
                   faulted, trace, search_call, ag_call, responses, first_run,
                   app, chat, openai_logger>>

NextSearch ==
    \/ \E top_k \in TopKs, use_reranker \in BOOLEAN : direct_hybrid_search(top_k, use_reranker)
    \/ \E query \in Queries, include_generation \in BOOLEAN :
          direct_search_and_generate(query, 0, include_generation)

\* one direct call of HybridSearch.hybrid_search
SpecSearch == Init /\ [][NextSearch]_vars

(***************************************************************************)
(* The workflow from the conditional edge on, after retrieve_context ran   *)
(* against an index that answered with up to MaxPool hits: the retrieved   *)
(* candidates are then as many as RERANKER_TOP_N allows.                   *)
(***************************************************************************)
InitFormat ==
    /\ settings \in Settings
    /\ search_engine = HybridSearch_init(settings)
    /\ answer_generator = AnswerGenerator_init(settings)
    /\ arg_query = <<"a">>
    /\ \E n \in 0..MaxPool : \E env \in RerankEnvs(n) :
          LET r == HybridSearch_apply_reranking(search_engine, settings, RERANKER_TOP_N,
                                                TRUE, Pool(n), env)
          IN  /\ state = retrieve_context_state(
                             validate_input_state(initial_state(arg_query, NoHistory)), r)
              /\ calls = r.calls
              /\ search_call = [called |-> TRUE, raised |-> r.raised, exc |-> r.exc,
                                rerank_failed |-> r.calls["reranker"] > 0
                                                  /\ ~env.rerank_ok]
    /\ pc = check_context(state)
    /\ result = NoResult
    /\ faulted = FALSE
    /\ trace = <<"validate_input", "retrieve_context">>
    /\ ag_call = NoCall
    /\ direct_call = NoCall
    /\ responses = FreeResponses
    /\ first_run = NoRun
    /\ InitApp

NextFormat ==
    \/ generate_answer
    \/ handle_no_context
    \/ format_output
    \/ run_return

\* the rest of one run, from the conditional edge on
SpecFormat == InitFormat /\ [][NextFormat]_vars

(***************************************************************************)
(* Two calls of run on the same workflow instance, with the same query and *)
(* history, while the encoder, the index, the relevance model, the audit   *)
(* logger and the generation service answer the second run as they         *)
(* answered the first.  The clock is free: the generation call of the      *)
(* second run may take another time.                                       *)
(***************************************************************************)
\* the answers the services give to both runs
FixedResponses ==
    {[fixed |-> TRUE, search |-> s, gen |-> g] :
        s \in {e \in SearchEnvs : e.matched \subseteq {1}},
        g \in {e \in GenEnvs : e.elapsed = 0}}

InitTwice ==
    /\ settings \in Settings
    /\ search_engine = HybridSearch_init(settings)
    /\ answer_generator = AnswerGenerator_init(settings)
    /\ pc = "idle"
    /\ arg_query = <<>>
    /\ state = NoState
    /\ result = NoResult
    /\ faulted = FALSE
    /\ calls = NoCalls
    /\ trace = <<>>
    /\ search_call = NoCall
    /\ ag_call = NoCall
    /\ direct_call = NoCall
    /\ responses \in FixedResponses
    /\ first_run = NoRun
    /\ InitApp

\* run is called again on the same instance with the arguments of the first call
run_again ==
    /\ pc = "done" /\ ~faulted
    /\ ~first_run.done
    /\ first_run' = [done |-> TRUE, result |-> result, ag_call |-> ag_call]
    /\ state' = initial_state(arg_query, state.conversation_history)
    /\ pc' = "validate_input"
    /\ result' = NoResult
    /\ trace' = <<>>
    /\ search_call' = NoCall
    /\ ag_call' = NoCall
    /\ UNCHANGED <<settings, search_engine, answer_generator, arg_query, faulted, calls,
                   direct_call, responses, app, chat, openai_logger>>

NextTwice ==
    \/ \E query \in Queries, conversation_history \in {NoHistory, SomeHistory(<<Message(1)>>)} :
          run(query, conversation_history)
    \/ validate_input
    \/ retrieve_context
    \/ generate_answer
    \/ handle_no_context
    \/ format_output
    \/ run_return
    \/ run_again

\* two calls of run with the same arguments and the same answers of the services
SpecTwice == InitTwice /\ [][NextTwice]_vars

(***************************************************************************)
(* The prompt: AnswerGenerator.generate_answer called directly with a pool *)
(* of candidates and a long history, and _format_conversation_history      *)
(* called directly under any configured MAX_CONVERSATION_HISTORY.          *)
(***************************************************************************)
LongHistories ==
    {NoHistory} \cup {SomeHistory([i \in 1..n |-> Message(i)]) : n \in 0..MaxMessages}

\* a caller invokes generator._format_conversation_history(history) while the
\* setting MAX_CONVERSATION_HISTORY is max_turns
direct_format_conversation_history(history, max_turns) ==
    /\ pc = "idle"
    /\ direct_call' = [called |-> TRUE, op |-> "format_conversation_history",
                       history |-> history, max_turns |-> max_turns,
                       out |-> Return(AnswerGenerator_format_conversation_history(
                                          history, max_turns), NoCalls)]
    /\ pc' = "returned"
    /\ UNCHANGED <<settings, search_engine, answer_generator, arg_query, state, result,
                   faulted, calls, trace, search_call, ag_call, responses, first_run,
                   app, chat, openai_logger>>

NextPrompt ==
    \/ \E query \in Queries, n \in 0..MaxPool, conversation_history \in LongHistories :
          direct_generate_answer(query, Pool(n), conversation_history)
    \/ \E n \in 0..MaxMessages, max_turns \in 0..MAX_CONVERSATION_HISTORY :
          direct_format_conversation_history([i \in 1..n |-> Message(i)], max_turns)

\* one direct call of the generator or of its history formatter
SpecPrompt == Init /\ [][NextPrompt]_vars

(***************************************************************************)
(* The lifecycle of the singletons (core/instances.py) and of the clients  *)
(* their modules cache (core/elasticsearch.py, core/mongodb.py): calls of  *)
(* initialize_all_instances and shutdown_all_instances, of the getters, of *)
(* the client factories and of the two close functions, in any order.  A   *)
(* constructor or a close() may raise; nothing in these functions catches  *)
(* it, so what was assigned before stays assigned.                         *)
(***************************************************************************)
\* get_elasticsearch_client(): the cached client, constructed if there is none
get_elasticsearch_client(c) ==
    IF c._es_client.is_none
    THEN [c EXCEPT !._es_client = Handle([client |-> "Elasticsearch", id |-> c.made + 1]),
                   !.made = @ + 1]
    ELSE c

\* get_mongodb_client(): the cached client, constructed if there is none
get_mongodb_client(c) ==
    IF c._sync_client.is_none
    THEN [c EXCEPT !._sync_client = Handle([client |-> "MongoClient", id |-> c.made + 1]),
                   !.made = @ + 1]
    ELSE c

\* get_async_mongodb_client(): the cached client, constructed if there is none
get_async_mongodb_client(c) ==
    IF c._async_client.is_none
    THEN [c EXCEPT !._async_client = Handle([client |-> "AsyncIOMotorClient",
                                             id |-> c.made + 1]),
                   !.made = @ + 1]
    ELSE c

\* the client factories, the cache each fills and the function that fills it
Factories ==
    [get_elasticsearch_client |-> "_es_client",
     get_mongodb_client       |-> "_sync_client",
     get_async_mongodb_client |-> "_async_client"]

get_client(factory, c) ==
    CASE factory = "get_elasticsearch_client" -> get_elasticsearch_client(c)
      [] factory = "get_mongodb_client"       -> get_mongodb_client(c)
      [] factory = "get_async_mongodb_client" -> get_async_mongodb_client(c)

\* the globals initialize_all_instances assigns, given the caches c after the
\* two clients were asked for
initialized_instances(cfg, c) ==
    LET search == Handle([es_client |-> c._es_client, service |-> HybridSearch_init(cfg)])
        generator == Handle([generator |-> AnswerGenerator_init(cfg)])
    IN  [_elasticsearch_client |-> c._es_client,
         _mongodb_client |-> c._sync_client,
         _embedding_model |-> Handle([model |-> "EMBEDDING_MODEL"]),
         _reranker_model |-> IF cfg.RERANKER_ENABLED
                             THEN Handle([model |-> "RERANKER_MODEL"]) ELSE NoHandle,
         _search_service |-> search,
         _answer_generator |-> generator,
         _chatbot_workflow |-> Handle([search_service |-> search,
                                       answer_generator |-> generator])]

\* the calls of initialize_all_instances that may raise, in the order it makes
\* them, and the global each of its steps assigns
InitSteps ==
    <<"Elasticsearch", "MongoClient", "SentenceTransformer", "CrossEncoder",
      "HybridSearch", "AnswerGenerator", "AdmissionsChatbotWorkflow">>
InitGlobals ==
    <<"_elasticsearch_client", "_mongodb_client", "_embedding_model", "_reranker_model",
      "_search_service", "_answer_generator", "_chatbot_workflow">>
InitStepOf(global) == CHOOSE j \in 1..Len(InitGlobals) : InitGlobals[j] = global
InitCompleted == Len(InitSteps) + 1

\* whether step fail of initialize_all_instances makes a call that may raise:
\* a client is constructed only when its cache is empty, the relevance model
\* is loaded only when RERANKER_ENABLED
InitMayRaise(cfg, c, fail) ==
    CASE fail = 1 -> c._es_client.is_none
      [] fail = 2 -> c._sync_client.is_none
      [] fail = 4 -> cfg.RERANKER_ENABLED
      [] OTHER -> TRUE

\* the globals and the caches after initialize_all_instances ran up to the
\* step fail, which raised (InitCompleted: no step raised): the steps before
\* it assigned their globals, the others keep the value they had
initialize_until(cfg, inst, c, fail) ==
    LET c1 == IF fail > 1 THEN get_elasticsearch_client(c) ELSE c
        c2 == IF fail > 2 THEN get_mongodb_client(c1) ELSE c1
        built == initialized_instances(cfg, c2)
    IN  [instances |-> [g \in DOMAIN inst |->
                           IF InitStepOf(g) < fail THEN built[g] ELSE inst[g]],
         clients |-> c2]

\* what a call of the lifecycle leaves for its caller
LifecycleCall(op, out) ==
    [called |-> TRUE, op |-> op, after |-> lifecycle, closed |-> clients.closed,
     out |-> out]

\* initialize_all_instances()
initialize_all_instances ==
    \E fail \in 1..InitCompleted :
        /\ fail < InitCompleted => InitMayRaise(settings, clients, fail)
        /\ LET after == initialize_until(settings, instances, clients, fail)
           IN  /\ after.clients.made <= MaxClients
               /\ clients' = after.clients
               /\ instances' = after.instances
        /\ lifecycle' = IF fail = InitCompleted THEN "initialize" ELSE lifecycle
        /\ direct_call' = LifecycleCall("initialize_all_instances",
                              IF fail = InitCompleted THEN Return(NoHandle, NoCalls)
                              ELSE Raise(InitSteps[fail] \o " raised", NoCalls))
        /\ UNCHANGED <<wf, responses, first_run, chat, openai_logger>>

\* the client a global or a cache holds, as the set of its ids
IdOf(h) == IF h.is_none THEN {} ELSE {h.id}

\* the clients shutdown_all_instances closes: those its two globals hold
closed_by_shutdown(inst) == IdOf(inst._mongodb_client) \cup IdOf(inst._elasticsearch_client)

\* the close() calls of shutdown_all_instances in the order it makes them
ShutdownSteps == <<"_mongodb_client", "_elasticsearch_client">>
ShutdownCompleted == Len(ShutdownSteps) + 1

\* shutdown_all_instances(): the close() of step fail raised (ShutdownCompleted:
\* none did); the clients before it are closed, and only a call that completes
\* clears the globals
shutdown_all_instances ==
    \E fail \in 1..ShutdownCompleted :
        /\ fail < ShutdownCompleted => ~instances[ShutdownSteps[fail]].is_none
        /\ clients' = [clients EXCEPT !.closed = @ \cup
                          UNION {IdOf(instances[ShutdownSteps[j]]) :
                                    j \in 1..Len(ShutdownSteps) \cap 1..(fail - 1)}]
        /\ instances' = IF fail = ShutdownCompleted THEN NoInstances ELSE instances
        /\ lifecycle' = IF fail = ShutdownCompleted THEN "shutdown" ELSE lifecycle
        /\ direct_call' = LifecycleCall("shutdown_all_instances",
                              IF fail = ShutdownCompleted THEN Return(NoHandle, NoCalls)
                              ELSE Raise(ShutdownSteps[fail] \o ".close() raised", NoCalls))
        /\ UNCHANGED <<wf, responses, first_run, chat, openai_logger>>

\* one "if cache: cache.close(); cache = None" of the close functions
close_cached(c, cache) ==
    IF c[cache].is_none THEN c
    ELSE [c EXCEPT !.closed = @ \cup {c[cache].id}, ![cache] = NoHandle]

\* close_elasticsearch_connection(): closes the cached client and empties the
\* cache, unless close() raises
close_elasticsearch_connection ==
    \E ok \in BOOLEAN :
        /\ ~ok => ~clients._es_client.is_none
        /\ clients' = IF ok THEN close_cached(clients, "_es_client") ELSE clients
        /\ direct_call' = LifecycleCall("close_elasticsearch_connection",
                              IF ok THEN Return(NoHandle, NoCalls)
                              ELSE Raise("_es_client.close() raised", NoCalls))
        /\ UNCHANGED <<wf, responses, first_run, instances, lifecycle, chat, openai_logger>>

\* the close() calls of close_mongodb_connection in the order it makes them
CloseMongoSteps == <<"_sync_client", "_async_client">>
CloseMongoCompleted == Len(CloseMongoSteps) + 1

\* the caches after close_mongodb_connection ran up to the step fail
RECURSIVE close_mongodb_until(_, _)
close_mongodb_until(c, fail) ==
    IF fail = 1 THEN c
    ELSE close_cached(close_mongodb_until(c, fail - 1), CloseMongoSteps[fail - 1])

\* close_mongodb_connection(): closes the two cached clients in turn and
\* empties their caches, up to a close() that raises
close_mongodb_connection ==
    \E fail \in 1..CloseMongoCompleted :
        /\ fail < CloseMongoCompleted => ~clients[CloseMongoSteps[fail]].is_none
        /\ clients' = close_mongodb_until(clients, fail)
        /\ direct_call' = LifecycleCall("close_mongodb_connection",
                              IF fail = CloseMongoCompleted THEN Return(NoHandle, NoCalls)
                              ELSE Raise(CloseMongoSteps[fail] \o ".close() raised", NoCalls))
        /\ UNCHANGED <<wf, responses, first_run, instances, lifecycle, chat, openai_logger>>

\* a caller other than initialize_all_instances asks a factory for its client
\* (check_elasticsearch_health, HybridSearch() without a client, get_database,
\* check_mongodb_health, get_async_database); the constructor may raise
call_factory(factory) ==
    \E ok \in BOOLEAN :
        /\ ~ok => clients[Factories[factory]].is_none
        /\ LET after == get_client(factory, clients)
           IN  /\ after.made <= MaxClients
               /\ clients' = IF ok THEN after ELSE clients
               /\ direct_call' = LifecycleCall(factory,
                                     IF ok THEN Return(after[Factories[factory]], NoCalls)
                                     ELSE Raise(factory \o ": constructor raised", NoCalls))
        /\ UNCHANGED <<wf, responses, first_run, instances, lifecycle, chat, openai_logger>>

\* the getters and the global each returns
Getters ==
    [get_elasticsearch_instance    |-> "_elasticsearch_client",
     get_mongodb_instance          |-> "_mongodb_client",
     get_search_service_instance   |-> "_search_service",
     get_answer_generator_instance |-> "_answer_generator",
     get_chatbot_workflow_instance |-> "_chatbot_workflow"]

\* what the RuntimeError of each getter names
NotInitialized ==
    [get_elasticsearch_instance    |-> "Elasticsearch client",
     get_mongodb_instance          |-> "MongoDB client",
     get_search_service_instance   |-> "Search service",
     get_answer_generator_instance |-> "Answer generator",
     get_chatbot_workflow_instance |-> "Chatbot workflow"]

\* get_..._instance(): the global, or RuntimeError when it is None
get_instance(inst, getter) ==
    IF inst[Getters[getter]].is_none
    THEN Raise("RuntimeError: " \o NotInitialized[getter]
                   \o " not initialized. Call initialize_all_instances() first.", NoCalls)
    ELSE Return(inst[Getters[getter]], NoCalls)

\* the ids of the clients a handle is built on
ClientsOf(h) ==
    IF h.is_none THEN {}
    ELSE IF "client" \in DOMAIN h THEN {h.id}
    ELSE IF "es_client" \in DOMAIN h THEN IdOf(h.es_client)
    ELSE IF "search_service" \in DOMAIN h THEN IdOf(h.search_service.es_client)
    ELSE {}

\* a caller invokes one of the getters
call_getter(getter) ==
    /\ direct_call' = LifecycleCall(getter, get_instance(instances, getter))
    /\ UNCHANGED <<wf, responses, first_run, app, chat, openai_logger>>

NextLifecycle ==
    \/ initialize_all_instances
    \/ shutdown_all_instances
    \/ close_elasticsearch_connection
    \/ close_mongodb_connection
    \/ \E factory \in DOMAIN Factories : call_factory(factory)
    \/ \E getter \in DOMAIN Getters : call_getter(getter)

\* lifecycle calls, factory calls, close calls and getter calls in any order,
\* from the imported modules
SpecLifecycle == Init /\ [][NextLifecycle]_vars

(***************************************************************************)
(* The chat service (services/chat_service.py): calls of                   *)
(* process_chat_query on the initialised singletons and one conversation   *)
(* store.  The steps of a call, between which the steps of another call    *)
(* may fall: the ids and the read of the history; the pipeline, itself     *)
(* cut where it reads or writes the audit logger the calls share (the test *)
(* of the global _openai_logger, the construction of the logger, the       *)
(* increment of request_count, the read of request_count for the request   *)
(* id); the save and the return.                                           *)
(***************************************************************************)
\* the messages get_conversation_history_from_db keeps: messages[-6:]
HISTORY_MESSAGES == 6

\* conversation_id as a client sends it: absent, or the id of a conversation
ConversationIds == {None, "c1"}

\* the query of a chat request
ChatQueries == {<<"a">>}

\* what the search services, the generation service and the audit logger do
\* during the pipeline of a chat request
ChatSearchEnvs ==
    {[encoder_ok |-> TRUE, index_ok |-> ok, matched |-> IF ok THEN {1} ELSE {},
      rerank_ok |-> TRUE, score |-> [i \in DocIds |-> 0]] : ok \in BOOLEAN}
ChatGenEnvs ==
    {[format_ok |-> TRUE, log_request_ok |-> TRUE, create_ok |-> created,
      content_none |-> FALSE, content |-> IF created THEN <<"g">> ELSE <<>>,
      elapsed |-> 0, log_response_ok |-> TRUE, log_error_ok |-> created \/ logged] :
        created \in BOOLEAN, logged \in BOOLEAN}

\* generate_id(prefix), n being the uuid4 drawn
generate_id(prefix, n) == prefix \o "_uuid" \o ToString(n)

\* the i-th message of a conversation stored by earlier requests
StoredMessage(i) ==
    IF i % 2 = 1
    THEN [message_id |-> "msg_old" \o ToString((i + 1) \div 2) \o "_user",
          role |-> "user", content |-> <<"message" \o ToString(i)>>]
    ELSE [message_id |-> "msg_old" \o ToString(i \div 2),
          role |-> "assistant", content |-> <<"message" \o ToString(i)>>,
          sources |-> <<>>, metadata |-> EmptyDict]

\* the stores a request may find: empty, or conversation c1 with earlier turns
Stores ==
    {EmptyDict} \cup {[c \in {"c1"} |-> [i \in 1..(2 * k) |-> StoredMessage(i)]] :
                         k \in 1..MaxStoredTurns}

\* a history read that lets a failure of the store out
get_conversation_history_from_db_unguarded(st, inst, conversation_id, read_ok) ==
    IF inst._mongodb_client.is_none
    THEN Raise("RuntimeError: MongoDB client not initialized", NoCalls)
    ELSE IF ~read_ok THEN Raise("ExecutionTimeout", NoCalls)
    ELSE IF conversation_id \in DOMAIN st
    THEN LET messages == LastN(st[conversation_id],
                               Min(HISTORY_MESSAGES, Len(st[conversation_id])))
         IN  Return(SomeHistory([i \in 1..Len(messages) |->
                        [role |-> messages[i].role, content |-> messages[i].content]]),
                    NoCalls)
    ELSE Return(NoHistory, NoCalls)

\* get_conversation_history_from_db(conversation_id): the last messages of the
\* conversation, None when there is none, None when anything raises
get_conversation_history_from_db(st, inst, conversation_id, read_ok) ==
    IF inst._mongodb_client.is_none \/ ~read_ok
    THEN Return(NoHistory, NoCalls)
    ELSE IF conversation_id \in DOMAIN st
    THEN LET messages == LastN(st[conversation_id],
                               Min(HISTORY_MESSAGES, Len(st[conversation_id])))
         IN  Return(SomeHistory([i \in 1..Len(messages) |->
                        [role |-> messages[i].role, content |-> messages[i].content]]),
                    NoCalls)
    ELSE Return(NoHistory, NoCalls)

\* the two messages of a turn, as save_conversation_to_db prepares them
turn_messages(query, answer, sources, metadata, message_id) ==
    <<[message_id |-> message_id \o "_user", role |-> "user", content |-> query],
      [message_id |-> message_id, role |-> "assistant", content |-> answer,
       sources |-> sources, metadata |-> metadata]>>

\* update_one(..., {"$push": {"messages": {"$each": messages}}}, upsert=True)
update_one_push(st, conversation_id, messages) ==
    IF conversation_id \in DOMAIN st
    THEN [st EXCEPT ![conversation_id] = @ \o messages]
    ELSE [c \in DOMAIN st \cup {conversation_id} |->
             IF c = conversation_id THEN messages ELSE st[c]]

\* a save that stores the assistant message before the user message
save_conversation_to_db_assistant_first(st, inst, conversation_id, query, answer, sources, metadata, message_id, save_ok) ==
    LET messages == turn_messages(query, answer, sources, metadata, message_id)
    IN  IF inst._mongodb_client.is_none \/ ~save_ok
        THEN [raised |-> FALSE, store |-> st]
        ELSE [raised |-> FALSE,
              store |-> update_one_push(st, conversation_id, <<messages[2], messages[1]>>)]

\* save_conversation_to_db(...): one update that appends both messages; any
\* exception is logged and not raised again
save_conversation_to_db(st, inst, conversation_id, query, answer, sources, metadata, message_id, save_ok) ==
    IF inst._mongodb_client.is_none \/ ~save_ok
    THEN [raised |-> FALSE, store |-> st]
    ELSE [raised |-> FALSE,
          store |-> update_one_push(st, conversation_id,
                        turn_messages(query, answer, sources, metadata, message_id))]

\* conversation_id=state.get("conversation_id") in the node generate_answer
generate_answer_conversation_id(s) ==
    IF "conversation_id" \in DOMAIN s THEN s.conversation_id ELSE None

\* AdmissionsChatbotWorkflow.run(query, conversation_history): the nodes of
\* the graph in their order, request_count being the value log_request read
\* for the request id.  The outcome has the record returned, whether
\* generate_answer asked for the audit logger, the calls made of it and the
\* audit records written.
AdmissionsChatbotWorkflow_run(self, cfg, query, conversation_history, env, gen_env, now, request_count) ==
    LET s0 == initial_state(query, conversation_history)
        s1 == validate_input_state(s0)
        r  == HybridSearch_hybrid_search(self.search_service.service, cfg,
                                         RERANKER_TOP_N, TRUE, env)
        s2 == IF ~s1.should_retrieve
              THEN [s1 EXCEPT !.retrieved_documents = <<>>, !.has_context = FALSE]
              ELSE retrieve_context_state(s1, r)
        generates == check_context(s2) = "generate_answer"
        g  == AnswerGenerator_generate_answer(self.answer_generator.generator, s2.query,
                  s2.retrieved_documents, s2.conversation_history, gen_env)
        s3 == IF generates THEN generate_answer_state(s2, g) ELSE handle_no_context_state(s2)
        s4 == format_output_state(s3, cfg)
    IN  [result |-> run_record(s4),
         asks_logger |-> generates
                         /\ AnswerGenerator_asks_logger(self.answer_generator.generator),
         calls  |-> IF generates THEN g.calls ELSE NoCalls,
         audit  |-> IF generates
                    THEN AnswerGenerator_audit(request_count,
                             generate_answer_conversation_id(s2), g.calls, gen_env, now)
                    ELSE <<>>]

\* process_chat_query, first step: the ids, then the history of the
\* conversation when the client names one
chat_begin(r, query, conversation_id) ==
    /\ requests[r].pc = "idle"
    /\ \E read_ok \in IF conversation_id \notin {None, ""} THEN BOOLEAN ELSE {TRUE} :
         LET named == conversation_id \notin {None, ""}
             conv_id == IF named THEN conversation_id ELSE generate_id("conv", uuids + 1)
             drawn == IF named THEN 1 ELSE 2
             message_id == generate_id("msg", uuids + drawn)
             h == IF named
                  THEN get_conversation_history_from_db(store, instances, conversation_id,
                                                        read_ok)
                  ELSE Return(NoHistory, NoCalls)
         IN  /\ requests' = [requests EXCEPT ![r] =
                   IF h.raised
                   THEN [pc |-> "raised", exc |-> h.exc, events |-> <<"read">>]
                   ELSE [pc |-> "read", query |-> query,
                         conversation_id |-> conversation_id, conv_id |-> conv_id,
                         message_id |-> message_id, conversation_history |-> h.value,
                         read |-> [attempted |-> named, ok |-> read_ok,
                                   found |-> conversation_id \in DOMAIN store,
                                   stored |-> IF conversation_id \in DOMAIN store
                                              THEN store[conversation_id] ELSE <<>>],
                         events |-> IF named THEN <<"read">> ELSE <<>>]]
             /\ uuids' = uuids + drawn
    /\ UNCHANGED <<wf, direct_call, responses, first_run, app, store, openai_logger>>

\* the locals of a call while workflow.run is at the audit logger: what the
\* services do during this run, the clock, and the OpenAILogger object held
RunLocals == {"env", "gen_env", "now", "logger"}

\* workflow.run of the call with locals q, request_count being the value
\* log_request read for the request id
chat_workflow_run(q, inst, cfg, request_count) ==
    AdmissionsChatbotWorkflow_run(inst._chatbot_workflow, cfg, q.query,
        q.conversation_history, q.env, q.gen_env, q.now, request_count)

\* the locals of a call when workflow.run has returned out
chat_ran(q, out) ==
    Merge([f \in DOMAIN q \ RunLocals |-> q[f]],
          [pc |-> "ran",
           pipeline |-> out.result,
           result |-> Merge(out.result, [query |-> q.query,
                                         conversation_id |-> q.conv_id,
                                         message_id |-> q.message_id]),
           audit |-> out.audit,
           events |-> Append(q.events, "run")])

\* the locals of a call when get_openai_logger has returned the object id:
\* the run goes on to log_request, or ends without it when an earlier
\* statement of generate_answer raised
chat_got_logger(q, out, id) ==
    IF out.calls["log_request"] > 0
    THEN Merge(q, [pc |-> "log_request", logger |-> id])
    ELSE chat_ran(q, out)

\* process_chat_query, second step: the workflow singleton and its run, up to
\* the point where generate_answer has looked at the global _openai_logger
\* (get_openai_logger: `if _openai_logger is None`).  A run that does not
\* reach generate_answer with generation enabled returns in this step.
chat_run(r) ==
    /\ requests[r].pc = "read"
    /\ LET q == requests[r]
           w == get_instance(instances, "get_chatbot_workflow_instance")
       IN  IF w.raised
           THEN requests' = [requests EXCEPT ![r] =
                   [pc |-> "raised", exc |-> w.exc, events |-> q.events]]
           ELSE \E env \in ChatSearchEnvs, gen_env \in ChatGenEnvs, now \in Clock :
                  LET started == Merge(q, [env |-> env, gen_env |-> gen_env, now |-> now])
                      out == chat_workflow_run(started, instances, settings, 0)
                  IN  requests' = [requests EXCEPT ![r] =
                          IF ~out.asks_logger THEN chat_ran(started, out)
                          ELSE IF openai_logger._openai_logger = 0
                               THEN Merge(started, [pc |-> "get_openai_logger"])
                          ELSE chat_got_logger(started, out, openai_logger._openai_logger)]
    /\ UNCHANGED <<wf, direct_call, responses, first_run, app, store, uuids, openai_logger>>

\* the run of a call that found _openai_logger None: it constructs an
\* OpenAILogger, stores it in the global and returns what the global names
chat_get_openai_logger(r) ==
    /\ requests[r].pc = "get_openai_logger"
    /\ openai_logger' = get_openai_logger_new(openai_logger)
    /\ requests' = [requests EXCEPT ![r] =
           chat_got_logger(requests[r],
                           chat_workflow_run(requests[r], instances, settings, 0),
                           openai_logger'._openai_logger)]
    /\ UNCHANGED <<wf, direct_call, responses, first_run, app, store, uuids>>

\* log_request of the run of a call, first statement: self.request_count += 1
chat_log_request(r) ==
    /\ requests[r].pc = "log_request"
    /\ openai_logger' = log_request_on(openai_logger, requests[r].logger)
    /\ requests' = [requests EXCEPT ![r] = Merge(@, [pc |-> "request_id"])]
    /\ UNCHANGED <<wf, direct_call, responses, first_run, app, store, uuids>>

\* log_request of the run of a call, second statement: request_count is read
\* again for the request id; then the rest of the run, which touches nothing
\* the calls share
chat_run_return(r) ==
    /\ requests[r].pc = "request_id"
    /\ LET q == requests[r]
           request_count == openai_logger.objects[q.logger].request_count
       IN  requests' = [requests EXCEPT ![r] =
               chat_ran(q, chat_workflow_run(q, instances, settings, request_count))]
    /\ UNCHANGED <<wf, direct_call, responses, first_run, app, store, uuids, openai_logger>>

\* process_chat_query, third step: the save, its except branch, the return
chat_save(r) ==
    /\ requests[r].pc = "ran"
    /\ \E save_ok \in BOOLEAN :
         LET q == requests[r]
             sv == save_conversation_to_db(store, instances, q.conv_id, q.query,
                       q.result.answer, q.result.sources, q.result.metadata,
                       q.message_id, save_ok)
         IN  /\ store' = sv.store
             /\ requests' = [requests EXCEPT ![r] =
                   Merge(q, [pc |-> "returned",
                             result |-> IF sv.raised
                                        THEN [q.result EXCEPT !.metadata = Merge(@,
                                                 [save_warning |->
                                                    "Conversation not saved to database"])]
                                        ELSE q.result,
                             save |-> [ok |-> save_ok /\ ~instances._mongodb_client.is_none,
                                       at |-> IF q.conv_id \in DOMAIN store
                                              THEN Len(store[q.conv_id]) ELSE 0],
                             events |-> Append(q.events, "save")])]
    /\ UNCHANGED <<wf, direct_call, responses, first_run, app, openai_logger, uuids>>

\* the process after initialize_all_instances, with a store earlier requests
\* may have written
InitChat ==
    /\ settings \in {c \in Settings : c.RERANKER_ENABLED /\ c.OPENAI_API_KEY}
    /\ search_engine = HybridSearch_init(settings)
    /\ answer_generator = AnswerGenerator_init(settings)
    /\ pc = "idle"
    /\ arg_query = <<>>
    /\ state = NoState
    /\ result = NoResult
    /\ faulted = FALSE
    /\ calls = NoCalls
    /\ trace = <<>>
    /\ search_call = NoCall
    /\ ag_call = NoCall
    /\ direct_call = NoCall
    /\ responses = FreeResponses
    /\ first_run = NoRun
    /\ clients = get_mongodb_client(get_elasticsearch_client(NoClients))
    /\ instances = initialized_instances(settings, clients)
    /\ lifecycle = "initialize"
    /\ requests = [r \in Requests |-> IdleRequest]
    /\ store \in Stores
    /\ openai_logger = NoLogger
    /\ uuids = 0

NextChat ==
    \/ \E r \in Requests, query \in ChatQueries, conversation_id \in ConversationIds :
          chat_begin(r, query, conversation_id)
    \/ \E r \in Requests : chat_run(r)
    \/ \E r \in Requests : chat_get_openai_logger(r)
    \/ \E r \in Requests : chat_log_request(r)
    \/ \E r \in Requests : chat_run_return(r)
    \/ \E r \in Requests : chat_save(r)

\* two calls of process_chat_query, one after the other or interleaved
SpecChat == InitChat /\ [][NextChat]_vars

(***************************************************************************)
(* Properties                                                              *)
(***************************************************************************)
IsPrefix(s, t) == Len(s) <= Len(t) /\ SubSeq(t, 1, Len(s)) = s
Range(f) == {f[i] : i \in DOMAIN f}

PathGenerate == <<"validate_input", "retrieve_context", "generate_answer", "format_output">>
PathNoContext == <<"validate_input", "retrieve_context", "handle_no_context", "format_output">>
ReturnFields == {"query", "answer", "sources", "metadata"}
Returned == pc = "done" /\ ~faulted
\* AnswerGenerator.generate_answer was called and returned a record
AgReturned == ag_call.called /\ ~ag_call.out.raised

\* C1: for every query that is non-empty after trimming and every outcome of
\* the external services, the answer of the record run returns is non-empty.
C1_AnswerNeverEmpty ==
    (pc = "done" /\ Truthy(Strip(arg_query))) => result.answer # <<>>

\* C2: run never propagates an exception: whenever run is over it has
\* returned a record with exactly the fields query, answer, sources and
\* metadata, and when an exception left a node the answer is the fixed
\* apology, sources is empty and metadata has an error field.
C2_RunNeverPropagates ==
    pc = "done" =>
        /\ DOMAIN result = ReturnFields
        /\ faulted => /\ result.answer = WORKFLOW_ERROR_ANSWER
                      /\ result.sources = <<>>
                      /\ "error" \in DOMAIN result.metadata
                      /\ result.query = arg_query

\* C2 witness: an exception left format_output, after generate_answer ran
C2_Witness ==
    /\ pc = "done" /\ faulted
    /\ trace = <<"validate_input", "retrieve_context", "generate_answer">>

\* C3: in a run that does not take the except branch the nodes execute in
\* the order validate_input, retrieve_context, exactly one of generate_answer
\* and handle_no_context, format_output, then the run ends; each node at most
\* once, the next node only after the previous one.
C3_StageOrder ==
    ~faulted =>
        /\ IsPrefix(trace, PathGenerate) \/ IsPrefix(trace, PathNoContext)
        /\ pc \in Nodes => \/ IsPrefix(Append(trace, pc), PathGenerate)
                           \/ IsPrefix(Append(trace, pc), PathNoContext)
        /\ pc \in {"end", "done"} => trace \in {PathGenerate, PathNoContext}
        /\ pc = "idle" => trace = <<>>

\* C3 witness: a run through generate_answer is over
C3_Witness == Returned /\ trace = PathGenerate

\* an error the workflow or the generator recovered from in this run
RecoveredError ==
    \/ state.error # None
    \/ /\ AgReturned
       /\ "error" \in DOMAIN ag_call.out.value
       /\ ag_call.out.value.error # None

\* C4: every error the orchestrator recovers from is recorded in the error
\* field of the metadata run returns.
C4_RecoveredErrorInMetadata ==
    (Returned /\ RecoveredError) => "error" \in DOMAIN result.metadata

\* the retriever call of retrieve_context raised
RetrieverRaised == search_call.called /\ search_call.raised

\* C5: when the retriever call raises, the run goes on: has_context is false,
\* the candidates are empty, handle_no_context is taken, the generator is not
\* called, and the record has the example-categories answer with
\* fallback_used = true, generation_successful = false, reason = no_context_found.
C5_RetrieverFailureRecovered ==
    RetrieverRaised =>
        /\ state.has_context = FALSE
        /\ state.retrieved_documents = <<>>
        /\ IsPrefix(trace, PathNoContext)
        /\ pc \in {"handle_no_context", "format_output", "end", "done"}
        /\ ~ag_call.called /\ calls["generation"] = 0
        /\ pc = "done" =>
             /\ ~faulted
             /\ trace = PathNoContext
             /\ result.answer = NO_CONTEXT_ANSWER
             /\ result.sources = <<>>
             /\ result.metadata.fallback_used = TRUE
             /\ result.metadata.generation_successful = FALSE
             /\ result.metadata.reason = "no_context_found"

\* C5 witness: the index failed and the run is over
C5_Witness ==
    /\ pc = "done" /\ RetrieverRaised
    /\ search_call.exc = "ConnectionError: index unavailable"
    /\ calls["index"] = 1

\* the query of the run in progress is empty after trimming
EmptyQueryRun == pc # "idle" /\ ~Truthy(Strip(arg_query))

\* C6: when the query is empty after trimming, validate_input sets
\* should_retrieve = false and an error, no external service is called in
\* the rest of the run, and the run takes handle_no_context.
C6_EmptyQueryShortCircuit ==
    EmptyQueryRun =>
        /\ pc # "validate_input" => /\ state.should_retrieve = FALSE
                                    /\ state.error = "Empty query"
        /\ \A s \in {"encoder", "index", "reranker", "generation"} : calls[s] = 0
        /\ ~search_call.called /\ ~ag_call.called
        /\ IsPrefix(trace, PathNoContext)
        /\ pc \in {"end", "done"} => trace = PathNoContext

\* C6 witness: a run on a whitespace-only query is over
C6_Witness == pc = "done" /\ arg_query = <<" ">> /\ trace = PathNoContext

\* the except branch of AnswerGenerator.generate_answer ran
EnabledPathRaised == ag_call.called /\ ag_call.out.calls["log_error"] > 0

\* C7: when generation is enabled and anything in the enabled path raises,
\* generate_answer does not raise: it returns the fallback with
\* generation_successful = false, fallback_used = true, zero token usage and
\* error equal to the description of the exception.
C7_EnabledPathNeverRaises ==
    EnabledPathRaised =>
        /\ ~ag_call.out.raised
        /\ ag_call.out.value.generation_successful = FALSE
        /\ ag_call.out.value.fallback_used = TRUE
        /\ ag_call.out.value.tokens_used = ZeroTokens
        /\ ag_call.out.value.error # None

\* generate_answer returned the fallback for a non-empty candidate list
FallbackOfTop ==
    AgReturned /\ ag_call.out.value.fallback_used /\ ag_call.contexts # <<>>

\* C8: for a non-empty candidate list the fallback answer is built from the
\* first candidate only: its abstractive answer if non-empty, else its
\* extractive answer if non-empty, else the fixed "cannot answer" text; a
\* provenance suffix follows if and only if its article or its document is
\* non-empty, and with both present it reads "<article> - <document>".
C8_FallbackPrecedence ==
    FallbackOfTop =>
        LET top == ag_call.contexts[1]
            answer == ag_call.out.value.answer
            base == IF top.abstractive_answer # <<>> THEN top.abstractive_answer
                    ELSE IF top.extractive_answer # <<>> THEN top.extractive_answer
                    ELSE CANNOT_ANSWER
            suffix == SubSeq(answer, Len(base) + 1, Len(answer))
        IN  /\ IsPrefix(base, answer)
            /\ (suffix # <<>>) <=> (top.article # <<>> \/ top.document # <<>>)
            /\ (top.article # <<>> /\ top.document # <<>>) =>
                   suffix = <<SOURCE_PREFIX>> \o top.article \o <<SOURCE_SEP>> \o top.document
            /\ Range(suffix) \subseteq
                   {SOURCE_PREFIX, SOURCE_SEP} \cup Range(top.article) \cup Range(top.document)

\* C8 witness: the top candidate has only an extractive answer and an
\* article, the second candidate has an abstractive answer
C8_Witness ==
    /\ FallbackOfTop
    /\ Len(ag_call.contexts) = 2
    /\ ag_call.contexts[1].abstractive_answer = <<>>
    /\ ag_call.contexts[1].extractive_answer # <<>>
    /\ ag_call.contexts[1].article # <<>>
    /\ ag_call.contexts[1].document = <<>>
    /\ ag_call.contexts[2].abstractive_answer # <<>>

\* generation is disabled in settings or no credential is configured
GenerationOff == ~settings.ANSWER_GENERATION_ENABLED \/ ~settings.OPENAI_API_KEY

\* C9: if generation is disabled or no credential is configured, every call
\* of generate_answer returns the fallback with generation_successful = false,
\* fallback_used = true and error = None, and neither the generation service
\* nor the audit logger is called.
C9_DisabledNeverCallsService ==
    (ag_call.called /\ GenerationOff) =>
        /\ ~ag_call.out.raised
        /\ ag_call.out.value.generation_successful = FALSE
        /\ ag_call.out.value.fallback_used = TRUE
        /\ ag_call.out.value.error = None
        /\ \A s \in {"generation", "log_request", "log_response", "log_error"} :
               ag_call.out.calls[s] = 0 /\ calls[s] = 0

\* C9 witness: generation is enabled in settings but there is no credential
C9_Witness ==
    /\ ag_call.called
    /\ settings.ANSWER_GENERATION_ENABLED /\ ~settings.OPENAI_API_KEY
    /\ ag_call.contexts # <<>>

\* C10: if the candidate list is empty, generate_answer returns the fixed
\* "no information found" text with generation_successful = false, whether
\* generation is enabled or not and whatever the generation service answers.
C10_EmptyCandidatesNoInfo ==
    (AgReturned /\ ag_call.contexts = <<>>) =>
        /\ ag_call.out.value.answer = NO_INFO_ANSWER
        /\ ag_call.out.value.generation_successful = FALSE

\* C11: every outcome AnswerGenerator.generate_answer returns has exactly one
\* of generation_successful and fallback_used true, and generation_successful
\* is true only when the call of the generation service was made and returned
\* without error.
C11_ExactlyOneOfGeneratedAndFallback ==
    AgReturned =>
        /\ ag_call.out.value.generation_successful # ag_call.out.value.fallback_used
        /\ ag_call.out.value.generation_successful => ag_call.service.returned

\* C11 witness: the generation service failed, and the fallback for a
\* non-empty candidate list was returned
C11_Witness ==
    /\ AgReturned
    /\ ag_call.service.made /\ ~ag_call.service.returned
    /\ ag_call.contexts # <<>>
    /\ ag_call.out.value.fallback_used

\* Reranker.rerank was called directly and returned a list
RerankReturned ==
    direct_call.called /\ direct_call.op = "rerank" /\ ~direct_call.out.raised

\* the relevance model scored the candidates of the call
RerankScored == RerankReturned /\ direct_call.out.calls["reranker"] > 0

\* C12: for every candidate list and every supplied top_n, 0 and values
\* larger than the list included, the list rerank returns holds only
\* candidates of the input, each at most once, and has at most top_n and at
\* most as many candidates as the input.
C12_RerankSubsetAndSize ==
    (RerankReturned /\ direct_call.supplied) =>
        LET docs == direct_call.documents
            out == direct_call.out.value
        IN  /\ \A i \in 1..Len(out) : \E j \in 1..Len(docs) : docs[j].id = out[i].id
            /\ \A i, j \in 1..Len(out) : i # j => out[i].id # out[j].id
            /\ Len(out) <= direct_call.top_n
            /\ Len(out) <= Len(docs)

\* C13: in enabled mode the list rerank returns is in non-increasing
\* reranker_score, candidates of equal score keep the order of the input
\* (ascending original_rank, the 1-based input position), and the list is
\* the top of that order: as many candidates as asked for (the default when
\* top_n is 0 or missing) or all of them, and no dropped candidate scores
\* strictly higher than a returned one.
C13_RerankOrderStable ==
    RerankScored =>
        LET docs == direct_call.documents
            out == direct_call.out.value
            score == direct_call.scores
            n == IF direct_call.top_n # 0 THEN direct_call.top_n ELSE RERANKER_TOP_N
            kept == {out[i].id : i \in 1..Len(out)}
        IN  /\ Len(out) = Min(n, Len(docs))
            /\ \A i \in 1..Len(out) :
                   /\ out[i].original_rank \in 1..Len(docs)
                   /\ docs[out[i].original_rank].id = out[i].id
                   /\ out[i].reranker_score = score[out[i].original_rank]
            /\ \A i, j \in 1..Len(out) : i < j =>
                   \/ out[i].reranker_score > out[j].reranker_score
                   \/ /\ out[i].reranker_score = out[j].reranker_score
                      /\ out[i].original_rank < out[j].original_rank
            /\ \A d \in 1..Len(docs) : docs[d].id \notin kept =>
                   \A i \in 1..Len(out) :
                      \/ score[d] < out[i].reranker_score
                      \/ score[d] = out[i].reranker_score /\ out[i].original_rank < d

\* C13 witness: four candidates, the second and the fourth score highest and
\* equal, and the top three are returned
C13_Witness ==
    /\ RerankScored
    /\ Len(direct_call.documents) = 4 /\ direct_call.top_n = 3
    /\ direct_call.scores = <<0, 1, 0, 1>>
    /\ [i \in 1..3 |-> direct_call.out.value[i].id] = <<2, 4, 1>>

\* C14: in disabled mode rerank returns exactly the first top_n candidates
\* of the input in input order, adds no reranker_score or original_rank and
\* does not call the relevance model; when top_n is not supplied it takes
\* RERANKER_TOP_N for it, so the list has at most RERANKER_TOP_N candidates.
C14_DisabledIdentityPrefix ==
    (RerankReturned /\ ~settings.RERANKER_ENABLED) =>
        LET docs == direct_call.documents
            out == direct_call.out.value
        IN  /\ direct_call.top_n > 0 => out = Take(docs, direct_call.top_n)
            /\ ~direct_call.supplied =>
                   /\ out = Take(docs, RERANKER_TOP_N)
                   /\ Len(out) <= RERANKER_TOP_N
            /\ \A i \in 1..Len(out) :
                   {"reranker_score", "original_rank"} \cap DOMAIN out[i] = {}
            /\ direct_call.out.calls["reranker"] = 0

\* HybridSearch.hybrid_search was called directly and asked the index
SearchAsked ==
    direct_call.called /\ direct_call.op = "hybrid_search" /\ direct_call.index_called

\* C15: in hybrid_search, when reranking is in effect (use_reranker and
\* RERANKER_ENABLED) the size asked of the index is at least the final count
\* (the requested top_k, or the default when it is missing), for every top_k;
\* when reranking is not in effect the two are equal; in both cases the list
\* returned has at most the final count of candidates.
C15_RetrievalSizeCoversFinal ==
    SearchAsked =>
        LET in_effect == direct_call.use_reranker /\ settings.RERANKER_ENABLED
            final == IF direct_call.top_k # 0 THEN direct_call.top_k
                     ELSE IF in_effect THEN RERANKER_TOP_N ELSE RETRIEVAL_TOP_K
        IN  /\ in_effect => direct_call.index_size >= final
            /\ ~in_effect => direct_call.index_size = final
            /\ ~direct_call.out.raised => Len(direct_call.out.value) <= final

\* format_output has run
Formatted == pc \in {"end", "done"} /\ ~faulted

\* the metadata the branch before format_output wrote
BranchMetadata ==
    IF ~ag_call.called
    THEN [generation_successful |-> FALSE, fallback_used |-> TRUE,
          reason |-> "no_context_found"]
    ELSE IF ag_call.out.raised
    THEN [generation_successful |-> FALSE, error |-> ag_call.out.exc]
    ELSE [generation_model |-> ag_call.out.value.model,
          tokens_used |-> ag_call.out.value.tokens_used,
          generation_successful |-> ag_call.out.value.generation_successful,
          fallback_used |-> ag_call.out.value.fallback_used]

\* C16: after format_output, sources has exactly min(3, number of retrieved
\* candidates) entries, the i-th summarising the i-th candidate (question,
\* article, document, score, and reranker_score only if the candidate has
\* one); metadata.num_documents_retrieved is the number of retrieved
\* candidates, metadata.reranker_enabled is the configured flag, and the
\* metadata keys of the preceding branch are preserved.
C16_FormatOutputSources ==
    Formatted =>
        LET docs == state.retrieved_documents
            sources == state.sources
            metadata == state.metadata
        IN  /\ Len(sources) = Min(3, Len(docs))
            /\ \A i \in 1..Len(sources) :
                   /\ sources[i].question = docs[i].question
                   /\ sources[i].article = docs[i].article
                   /\ sources[i].document = docs[i].document
                   /\ sources[i].score = docs[i].score
                   /\ "reranker_score" \in DOMAIN sources[i]
                          <=> "reranker_score" \in DOMAIN docs[i]
                   /\ "reranker_score" \in DOMAIN docs[i]
                          => sources[i].reranker_score = docs[i].reranker_score
                   /\ DOMAIN sources[i] \subseteq
                          {"question", "article", "document", "score", "reranker_score"}
            /\ metadata.num_documents_retrieved = Len(docs)
            /\ metadata.reranker_enabled = settings.RERANKER_ENABLED
            /\ \A k \in DOMAIN BranchMetadata : /\ k \in DOMAIN metadata
                                                 /\ metadata[k] = BranchMetadata[k]

\* C16 witness: five candidates were retrieved and reranked, the second hit
\* of the index first, and the run is over with three sources
C16_Witness ==
    /\ pc = "done" /\ ~faulted
    /\ Len(state.retrieved_documents) = 5
    /\ Len(result.sources) = 3
    /\ result.sources[1].question = <<"question2">>
    /\ "reranker_score" \in DOMAIN result.sources[1]
    /\ result.metadata.generation_successful

\* C17: two runs of run with the same query, the same history and the same
\* answers (or failures) of the index, rerank and generation services return
\* identical {query, answer, sources, metadata} records, whatever the clock
\* reads and whatever the first run left behind on the shared instance.
C17_RunsAgree ==
    (pc = "done" /\ first_run.done) => result = first_run.result

\* C17 witness: both runs generated an answer, and the generation call of
\* the second run took another time than that of the first
C17_Witness ==
    /\ pc = "done" /\ first_run.done
    /\ AgReturned /\ ag_call.out.value.generation_successful
    /\ first_run.ag_call.out.value.generation_successful
    /\ ag_call.out.value.response_time # first_run.ag_call.out.value.response_time
    /\ calls["generation"] = 2

\* _format_conversation_history was called directly
HistoryFormatted == direct_call.called /\ direct_call.op = "format_conversation_history"

\* C18: for every history and every configured cap N = MAX_CONVERSATION_HISTORY,
\* N = 0 included, _format_conversation_history returns at most 2*N messages,
\* and they are the most recent ones in their original order.
C18_HistoryBounded ==
    HistoryFormatted =>
        LET history == direct_call.history
            out == direct_call.out.value
            keep == Min(Len(history), 2 * direct_call.max_turns)
        IN  /\ Len(out) <= 2 * direct_call.max_turns
            /\ out = SubSeq(history, Len(history) - keep + 1, Len(history))

\* the first position of token x in text s, 0 if there is none
IndexOf(s, x) ==
    IF \E i \in 1..Len(s) : s[i] = x
    THEN CHOOSE i \in 1..Len(s) : s[i] = x /\ \A j \in 1..(i - 1) : s[j] # x
    ELSE 0

DocHeader(i) == "[Tai lieu " \o ToString(i) \o "]"

\* C19: the messages sent to the generation service are the fixed system
\* instruction, first and the only message of role system, then the trimmed
\* history (the last 2*MAX_CONVERSATION_HISTORY messages, oldest first), and
\* last a user message holding the literal query and the context block; the
\* block renders the first ANSWER_MAX_CONTEXT_DOCS candidates in ranked order
\* and none of the others.
C19_MessageSequence ==
    (ag_call.called /\ ag_call.service.made) =>
        LET msgs == ag_call.service.messages
            history == ag_call.history.messages
            keep == Min(Len(history), 2 * MAX_CONVERSATION_HISTORY)
            docs == ag_call.contexts
            shown == Min(Len(docs), ANSWER_MAX_CONTEXT_DOCS)
            last == msgs[Len(msgs)]
        IN  /\ Len(msgs) = keep + 2
            /\ msgs[1] = [role |-> "system", content |-> SYSTEM_PROMPT]
            /\ \A i \in 2..Len(msgs) : msgs[i].role # "system"
            /\ SubSeq(msgs, 2, Len(msgs) - 1)
                   = SubSeq(history, Len(history) - keep + 1, Len(history))
            /\ last.role = "user"
            /\ SubSeq(last.content, 2, 1 + Len(ag_call.query)) = ag_call.query
            /\ \A i \in 1..shown :
                   /\ IndexOf(last.content, DocHeader(i)) > 0
                   /\ IndexOf(last.content, DocHeader(i))
                          < IndexOf(last.content, docs[i].question[1])
                   /\ i < shown => IndexOf(last.content, docs[i].question[1])
                                      < IndexOf(last.content, DocHeader(i + 1))
            /\ \A i \in (shown + 1)..Len(docs) :
                   /\ IndexOf(last.content, DocHeader(i)) = 0
                   /\ IndexOf(last.content, docs[i].question[1]) = 0

\* C19 witness: six candidates and a history of eleven messages: twelve
\* messages were sent, the oldest history message dropped
C19_Witness ==
    /\ ag_call.called /\ ag_call.service.made
    /\ Len(ag_call.contexts) = 6
    /\ Len(ag_call.history.messages) = 11
    /\ Len(ag_call.service.messages) = 12
    /\ ag_call.service.messages[2] = Message(2)

\* C20: there is no retry: within one run the query encoder, the index, the
\* relevance model and the generation service are each called at most once,
\* so a service whose call failed is not called again in that run.
C20_NoRetry ==
    /\ \A s \in {"encoder", "index", "reranker", "generation"} : calls[s] <= 1
    /\ RetrieverRaised => calls["generation"] = 0
    /\ (ag_call.called /\ ag_call.service.made) =>
           /\ calls["generation"] = 1
           /\ ag_call.out.calls["generation"] = 1

\* C20 witness: the encoder, the index and the relevance model answered, the
\* call of the generation service failed, and the run is over
C20_Witness ==
    /\ pc = "done" /\ ~faulted
    /\ calls["encoder"] = 1 /\ calls["index"] = 1 /\ calls["reranker"] = 1
    /\ AgReturned
    /\ ag_call.service.made /\ ~ag_call.service.returned
    /\ calls["generation"] = 1
    /\ result.metadata.fallback_used

\* the call of the Answer Generator raised out of the generate_answer node
GeneratorRaised == ag_call.called /\ ag_call.out.raised

\* C24: when the call of the Answer Generator raises out of the node
\* generate_answer, the run is not aborted: the state has the fixed apology as
\* answer, the error field "Generation error: <text>" and the metadata
\* generation_successful = false with the error text, and the run goes on to
\* format_output, which returns the sources of the retrieved candidates and
\* the retrieval metadata.
C24_GeneratorRaiseRecovered ==
    GeneratorRaised =>
        /\ ~faulted
        /\ pc \in {"format_output", "end", "done"}
        /\ state.answer = GENERATION_ERROR_ANSWER
        /\ state.error = "Generation error: " \o ag_call.out.exc
        /\ state.metadata.generation_successful = FALSE
        /\ state.metadata.error = ag_call.out.exc
        /\ pc = "format_output" => DOMAIN state.metadata = {"generation_successful", "error"}
        /\ pc \in {"end", "done"} =>
              LET docs == Take(state.retrieved_documents, MAX_SOURCES)
              IN  /\ trace = PathGenerate
                  /\ Len(state.retrieved_documents) > 0
                  /\ state.sources = [i \in 1..Len(docs) |-> format_source(docs[i])]
                  /\ state.metadata.num_documents_retrieved = Len(state.retrieved_documents)
                  /\ state.metadata.retrieval_method = "hybrid_search_with_reranking"
                  /\ state.metadata.reranker_enabled = settings.RERANKER_ENABLED
        /\ pc = "done" =>
              /\ result.answer = GENERATION_ERROR_ANSWER
              /\ result.sources = state.sources
              /\ result.metadata = state.metadata

\* a run returned after the generator raised, with sources of its candidates
C24_Witness ==
    /\ Returned
    /\ GeneratorRaised
    /\ Len(result.sources) > 1
    /\ result.metadata.num_documents_retrieved = Len(result.sources)

\* C25: a failure of the relevance model inside Reranker.rerank is swallowed
\* neither by the reranker nor by hybrid_search: hybrid_search raises it to
\* its caller and returns no candidate list; the node retrieve_context treats
\* it as a retrieval failure (no candidates, has_context false, the error
\* recorded), the run takes the handle_no_context branch and the generator
\* is never called with candidates in their order before reranking.
C25_RerankFailurePropagates ==
    (search_call.called /\ search_call.rerank_failed) =>
        /\ search_call.raised
        /\ search_call.exc = "relevance model error"
        /\ state.retrieved_documents = <<>>
        /\ ~state.has_context
        /\ state.error = "Retrieval error: relevance model error"
        /\ ~ag_call.called
        /\ pc \in {"handle_no_context", "format_output", "end", "done"}
        /\ pc \in {"end", "done"} => trace = PathNoContext
        /\ pc = "done" =>
              /\ result.answer = NO_CONTEXT_ANSWER
              /\ result.sources = <<>>
              /\ result.metadata.num_documents_retrieved = 0

\* a run returned after the relevance model failed on the retrieved pool
C25_Witness ==
    /\ Returned
    /\ search_call.called
    /\ search_call.rerank_failed
    /\ calls["reranker"] = 1
    /\ calls["index"] = 1

\* the conditional edge after retrieve_context has been evaluated
PastBranch == pc \in {"generate_answer", "handle_no_context", "format_output", "end", "done"}

\* C26: at the conditional edge has_context is true exactly when the list of
\* candidates is non-empty, so the Answer Generator is only ever called with
\* a non-empty list; and whenever handle_no_context is taken, the record
\* returned has empty sources and metadata.num_documents_retrieved = 0.
C26_HasContextIffCandidates ==
    /\ (PastBranch /\ ~faulted) =>
          /\ state.has_context <=> (Len(state.retrieved_documents) > 0)
          /\ pc = "generate_answer" => state.has_context
          /\ pc = "handle_no_context" => ~state.has_context
          /\ ("generate_answer" \in Range(trace)) => state.has_context
          /\ ("handle_no_context" \in Range(trace)) => ~state.has_context
    /\ ag_call.called => Len(ag_call.contexts) > 0
    /\ ("handle_no_context" \in Range(trace) /\ Returned) =>
          /\ result.sources = <<>>
          /\ result.metadata.num_documents_retrieved = 0

\* both branches happen: the edge was passed without candidates after a
\* failed retrieval, and the record of the no-context branch was returned
C26_Witness ==
    /\ Returned
    /\ trace = PathNoContext
    /\ RetrieverRaised
    /\ result.sources = <<>>

SearchGenerateAsked == direct_call.called /\ direct_call.op = "search_and_generate"

\* the failures of the external services of a search, as hybrid_search raises them
ExternalSearchFailures ==
    {"encoder error", "ConnectionError: index unavailable", "relevance model error"}

\* C30: search_and_generate completes the pipeline for every query, with
\* generation enabled or disabled and include_generation true or false: it
\* fails only for a failure of an external service, and otherwise returns a
\* record with query, generated_answer, retrieved_documents and metadata in
\* which generation_successful and fallback_used are never both true.
C30_SearchAndGenerateCompletes ==
    SearchGenerateAsked =>
        /\ direct_call.out.raised => direct_call.out.exc \in ExternalSearchFailures
        /\ ~direct_call.out.raised =>
              /\ DOMAIN direct_call.out.value =
                    {"query", "generated_answer", "retrieved_documents", "metadata"}
              /\ ~(direct_call.out.value.metadata.generation_successful
                   /\ direct_call.out.value.metadata.fallback_used)

GetterCalled == direct_call.called /\ direct_call.op \in DOMAIN Getters

\* C29: for any sequence of initialize_all_instances and
\* shutdown_all_instances, each of the five getters raises RuntimeError when
\* the last completed lifecycle call was shutdown or none was made, and after
\* an initialize (also one that follows a shutdown) returns a handle built on
\* open clients, never on a client that shutdown closed.
C29_GettersFollowLifecycle ==
    GetterCalled =>
        /\ direct_call.after \in {"none", "shutdown"} => direct_call.out.raised
        /\ direct_call.after = "initialize" =>
              /\ ~direct_call.out.raised
              /\ ClientsOf(direct_call.out.value) \cap direct_call.closed = {}

\* where a call of process_chat_query is
ChatRunning(r) == requests[r].pc \in {"get_openai_logger", "log_request", "request_id"}
ChatRead(r) == requests[r].pc \in {"read", "ran", "returned"} \/ ChatRunning(r)
ChatRan(r) == requests[r].pc \in {"ran", "returned"}
ChatReturned(r) == requests[r].pc = "returned"

\* C21: the conversation identifier of the request being served is the one
\* the node generate_answer passes to the Answer Generator, so every audit
\* record (request, response, error) written for the request carries the
\* conversation identifier of the request.
C21_AuditCarriesConversationId ==
    \A r \in Requests :
        ChatRan(r) =>
            \A i \in DOMAIN requests[r].audit :
                requests[r].audit[i].conversation_id = requests[r].conv_id

\* the steps of a call in their order, for a call that names a conversation
\* and for one that does not
ChatSteps(q) ==
    IF q.conversation_id \notin {None, ""} THEN <<"read", "run", "save">>
    ELSE <<"run", "save">>

\* the ids of the messages the requests of the model stored
StoredByRequests ==
    UNION {{requests[r].message_id, requests[r].message_id \o "_user"} :
              r \in {x \in Requests : ChatReturned(x) /\ requests[x].save.ok}}

\* C22: process_chat_query reads the store before the pipeline runs and
\* writes it only after the pipeline has returned; a failure of the read or
\* of the write never makes it raise; and the answer, the sources, the
\* conversation_id and the message_id it returns are those of the pipeline
\* run and of the ids drawn at the start, whatever the store operations did:
\* a failed read hands the pipeline the history None, as a read that finds
\* nothing does.
C22_StoreFailuresHarmless ==
    /\ \A r \in Requests :
        LET q == requests[r]
        IN  /\ q.pc # "raised"
            /\ ChatRead(r) =>
                  /\ IsPrefix(q.events, ChatSteps(q))
                  /\ (q.read.attempted /\ ~q.read.ok) => q.conversation_history = NoHistory
            /\ ChatReturned(r) =>
                  /\ q.events = ChatSteps(q)
                  /\ q.result.answer = q.pipeline.answer
                  /\ q.result.sources = q.pipeline.sources
                  /\ q.result.conversation_id = q.conv_id
                  /\ q.result.message_id = q.message_id
    /\ \A c \in DOMAIN store : \A i \in DOMAIN store[c] :
          store[c][i] # StoredMessage(i) => store[c][i].message_id \in StoredByRequests

\* a call returned the generated answer although the read of an existing
\* conversation failed and the save failed
C22_Witness ==
    \E r \in Requests :
        /\ ChatReturned(r)
        /\ requests[r].read.attempted /\ requests[r].read.found /\ ~requests[r].read.ok
        /\ ~requests[r].save.ok
        /\ requests[r].result.metadata.generation_successful
        /\ requests[r].result.answer = <<"g">>

\* the request ids in the audit records of one request
RequestIds(audit) ==
    {audit[i].request_id : i \in {j \in DOMAIN audit : audit[j].type = "REQUEST"}}

\* C23: serving a request writes no field of a handle shared between the
\* requests: the singletons of app.core.instances are as initialize built
\* them and every audit logger is as it was constructed, whatever the
\* requests in flight have done; and the request ids derived from the audit
\* logger differ between the requests, as they do when one request is served
\* after the other.
C23_SharedHandlesUnwritten ==
    /\ instances = initialized_instances(settings, clients)
    /\ \A i \in DOMAIN openai_logger.objects : openai_logger.objects[i] = OpenAILogger_init
    /\ \A r1 \in Requests, r2 \in Requests :
          (r1 # r2 /\ ChatRan(r1) /\ ChatRan(r2)) =>
              RequestIds(requests[r1].audit) \cap RequestIds(requests[r2].audit) = {}

\* C27: when the save of the new turn fails inside process_chat_query, the
\* request still succeeds and the metadata of the result has save_warning =
\* "Conversation not saved to database"; when the save succeeds the metadata
\* has no save_warning.
C27_SaveWarning ==
    \A r \in Requests :
        /\ requests[r].pc # "raised"
        /\ ChatReturned(r) =>
              LET metadata == requests[r].result.metadata
              IN  IF requests[r].save.ok
                  THEN "save_warning" \notin DOMAIN metadata
                  ELSE /\ "save_warning" \in DOMAIN metadata
                       /\ metadata.save_warning = "Conversation not saved to database"

\* the messages of a conversation that earlier requests stored
OldMessages(m) == {i \in DOMAIN m : m[i] = StoredMessage(i)}

\* the calls that returned after a successful save to conversation c
SavedTo(c) ==
    {r \in Requests : ChatReturned(r) /\ requests[r].save.ok /\ requests[r].conv_id = c}

====
